---- MODULE Spec2Model ----
(***************************************************************************)
(* Model of the recommendation core of ai-model-advisor: the ModelSelector *)
(* (src/lib/recommendation/ModelSelector.js) over the static model         *)
(* catalog, and the page (src/routes/+page.svelte) that routes classify    *)
(* events to the two classifiers and submit events to the ModelSelector.   *)
(*                                                                         *)
(* JavaScript values are modelled as follows.                              *)
(*   - a value that may be undefined/null/NaN is a set with at most one    *)
(*     element: {} is undefined (or NaN for a number), {v} is the value v; *)
(*   - an array is a sequence, an object is a function from its keys;      *)
(*   - accuracy (a fraction 0..1 in the catalog) is kept in thousandths,   *)
(*     so 0.77 is 770 and the comparison with threshold / 100 is exact.    *)
(***************************************************************************)
EXTENDS Integers, Sequences, FiniteSets, TLC

VARIABLES
    modelsData,   \* ModelSelector.modelsData: the catalog handed to the constructor
    models,       \* an array of models held by a caller of the list operations
    call,         \* the last ModelSelector call: its name, arguments and return value
    \* the page (routes/+page.svelte)
    url,                \* window.location.search: the category, task and deploy parameters
    mount,              \* where onMount stands: "initializing", "mounted" or "failed"
    initStatus,         \* the progress state of EmbeddingTaskClassifier.initialize
    usingFallback,
    classifierReady,
    isLoading,
    recommendations,
    taskCategory,
    taskSubcategory,
    error,
    prefillCategory,
    prefillSubcategory,
    prefillConfidence,
    pending,            \* the handleClassify calls awaiting taskClassifier.classify
    served,             \* the handleClassify calls that ended, in the order they ended
    submitted,          \* the detail of the last submit event handled
    \* the Embedding Classifier (spec 4.2)
    similarities,       \* the reference entries: label and similarity to the query
    classification,     \* what classify returned for the query
    \* size-based tier and environmental score
    sizedModel,         \* the model whose size is scored
    scored,             \* what each of the three functions returned for it
    \* the ModelAggregator (lib/aggregation/ModelAggregator.js)
    modelsJson,         \* the content of models.json
    aggregation,        \* the last aggregateModels call: its options and what it returned
    writes,             \* the number of times models.json was written
    runs                \* the number of runs of the update script

\* what handleFormSubmit writes besides modelsData and call
submitVars ==
    <<url, isLoading, recommendations, taskCategory, taskSubcategory, error, submitted>>

\* what handleClassify writes
prefillVars == <<prefillCategory, prefillSubcategory, prefillConfidence>>

pageVars ==
    <<mount, initStatus, usingFallback, classifierReady, pending, served,
      submitVars, prefillVars>>

\* what the Embedding Classifier reads and returns
classifierVars == <<similarities, classification>>

\* the state of the components that run apart from the selector and the page
impactVars == <<sizedModel, scored>>

aggregatorVars == <<modelsJson, aggregation, writes, runs>>

offPageVars == <<classifierVars, impactVars, aggregatorVars>>

vars == <<modelsData, models, call, pageVars, offPageVars>>

----------------------------------------------------------------------------
(* Bounds of the model *)

\* the most models a catalog holds for one (category, subcategory)
MaxModels == 2
\* the longest array handed to rankBySize / filterByAccuracy / filterByDeployment
MaxLen == 3
\* the most classify events of a session
MaxRequests == 2

----------------------------------------------------------------------------
(* JavaScript values *)

Undefined == {}
Some(v) == {v}
IsDefined(o) == o # {}
Val(o) == CHOOSE v \in o : TRUE

\* obj[key] for an object that may lack the key
Get(obj, key) == IF key \in DOMAIN obj THEN Some(obj[key]) ELSE Undefined

\* a - b on numbers that may be undefined: NaN when either is
NumSub(a, b) == IF IsDefined(a) /\ IsDefined(b) THEN Some(Val(a) - Val(b)) ELSE Undefined

\* x || y on numbers: NaN and 0 are falsy
NumOr(x, y) == IF IsDefined(x) /\ Val(x) # 0 THEN x ELSE y

\* array.slice(0, n) for n >= 0
Slice0(arr, n) == SubSeq(arr, 1, IF n < Len(arr) THEN n ELSE Len(arr))

\* the elements of an array, as array.includes(x) reads them
Range(s) == {s[i] : i \in 1..Len(s)}

RECURSIVE SumSeq(_)
SumSeq(s) == IF s = <<>> THEN 0 ELSE s[1] + SumSeq(Tail(s))

RECURSIVE Flatten(_)
Flatten(ss) == IF ss = <<>> THEN <<>> ELSE ss[1] \o Flatten(Tail(ss))

----------------------------------------------------------------------------
(* Constants of the program *)

\* import { TIERS } from '../data/constants.js'
TIERS == <<"lightweight", "standard", "advanced", "xlarge">>

\* selectModels(category, subcategory, maxResults = 3)
DefaultMaxResults == 3

----------------------------------------------------------------------------
(* ModelSelector *)

\* a model record of the catalog; getTaskModels and getTaskModelsGroupedByTier
\* add tier, tierPriority, category and subcategory to their copies
CatalogModel(id, sizeMB, accuracy, deploymentOptions) ==
    [id |-> id, sizeMB |-> sizeMB, accuracy |-> accuracy,
     deploymentOptions |-> deploymentOptions,
     tier |-> Undefined, tierPriority |-> Undefined,
     category |-> Undefined, subcategory |-> Undefined]

\* this.modelsData.models[category]?.[subcategory]
TaskData(data, category, subcategory) ==
    LET cat == Get(data.models, category)
    IN  IF IsDefined(cat) THEN Get(Val(cat), subcategory) ELSE Undefined

\* (taskData[tier] || [])
TierList(taskData, tier) ==
    LET list == Get(taskData, tier)
    IN  IF IsDefined(list) THEN Val(list) ELSE <<>>

getTaskModels(data, category, subcategory) ==
    LET taskData == TaskData(data, category, subcategory)
    IN  IF ~IsDefined(taskData) THEN <<>>
        ELSE Flatten([index \in 1..Len(TIERS) |->
                LET list == TierList(Val(taskData), TIERS[index])
                IN  [j \in 1..Len(list) |->
                        [list[j] EXCEPT !.tier = Some(TIERS[index]),
                                        !.tierPriority = Some(index - 1),
                                        !.category = Some(category),
                                        !.subcategory = Some(subcategory)]]])

\* a comparator that leaves the tier out
bySizeOnly(a, b) == NumSub(Some(a.sizeMB), Some(b.sizeMB))

\* a comparator that puts the larger model first within a tier
byTierThenLargerSize(a, b) ==
    NumOr(NumSub(a.tierPriority, b.tierPriority),
          NumSub(Some(b.sizeMB), Some(a.sizeMB)))

\* the comparator of rankBySize:
\*   a.tierPriority - b.tierPriority || a.sizeMB - b.sizeMB
byTierThenSize(a, b) ==
    NumOr(NumSub(a.tierPriority, b.tierPriority),
          NumSub(Some(a.sizeMB), Some(b.sizeMB)))

\* Array.prototype.sort reads a comparator result of NaN as +0
SortOrder(a, b) ==
    LET v == byTierThenSize(a, b) IN IF IsDefined(v) THEN Val(v) ELSE 0

\* an unstable sort: an element also moves left past the elements equal to it
RECURSIVE InsertUnstable(_, _)
InsertUnstable(sorted, x) ==
    IF sorted = <<>> THEN <<x>>
    ELSE LET last == sorted[Len(sorted)]
             v == NumOr(NumSub(last.tierPriority, x.tierPriority),
                        NumSub(Some(last.sizeMB), Some(x.sizeMB)))
         IN  IF IsDefined(v) /\ Val(v) >= 0
             THEN Append(InsertUnstable(SubSeq(sorted, 1, Len(sorted) - 1), x), last)
             ELSE Append(sorted, x)

\* Array.prototype.sort is stable: an element moves left only past the
\* elements that compare greater than it
RECURSIVE InsertSorted(_, _)
InsertSorted(sorted, x) ==
    IF sorted = <<>> THEN <<x>>
    ELSE LET last == sorted[Len(sorted)]
         IN  IF SortOrder(last, x) > 0
             THEN Append(InsertSorted(SubSeq(sorted, 1, Len(sorted) - 1), x), last)
             ELSE Append(sorted, x)

RECURSIVE ArraySort(_)
ArraySort(arr) ==
    IF arr = <<>> THEN <<>>
    ELSE InsertSorted(ArraySort(SubSeq(arr, 1, Len(arr) - 1)), arr[Len(arr)])

\* sorts the array it is given in place and returns it
rankBySize(ms) == ArraySort(ms)

\* maxResults is Undefined when the caller omits it
selectModels(data, category, subcategory, maxResults) ==
    LET ms == getTaskModels(data, category, subcategory)
        n  == IF IsDefined(maxResults) THEN Val(maxResults) ELSE DefaultMaxResults
    IN  Slice0(rankBySize(ms), n)

\* a missing accuracy read as 1 (model.accuracy ?? 1)
AccuracyMissingAsOne(model) ==
    IF IsDefined(model.accuracy) THEN Val(model.accuracy) ELSE 1000

\* model.accuracy ?? 0, in thousandths
AccuracyOf(model) == IF IsDefined(model.accuracy) THEN Val(model.accuracy) ELSE 0

\* threshold / 100, in thousandths
ThresholdDecimal(threshold) == threshold * 10

\* filterByAccuracy without the threshold === 0 case, and keeping a model only
\* when it has an accuracy
filterByAccuracyNoZeroCase(ms, threshold) ==
    LET keep(model) == IsDefined(model.accuracy)
                       /\ Val(model.accuracy) >= threshold * 10
        filtered == SelectSeq(ms, keep)
    IN  [filtered |-> filtered, total |-> Len(ms),
         hidden |-> Len(ms) - Len(filtered)]

filterByAccuracy(ms, threshold) ==
    IF threshold = 0
    THEN [filtered |-> ms, total |-> Len(ms), hidden |-> 0]
    ELSE LET thresholdDecimal == ThresholdDecimal(threshold)
             keep(model) == AccuracyOf(model) >= thresholdDecimal
             filtered == SelectSeq(ms, keep)
         IN  [filtered |-> filtered, total |-> Len(ms),
              hidden |-> Len(ms) - Len(filtered)]

\* a table in which each target matches its own name only
targetMatchesLiteral ==
    [browser |-> <<"browser">>,
     edge    |-> <<"edge">>,
     cloud   |-> <<"cloud">>]

targetMatches ==
    [browser |-> <<"browser">>,
     edge    |-> <<"browser", "edge", "mobile">>,
     cloud   |-> <<"cloud", "server", "edge", "browser", "mobile">>]

\* targetMatches[deploymentTarget] || [deploymentTarget]
Allowed(deploymentTarget) ==
    LET m == Get(targetMatches, deploymentTarget)
    IN  IF IsDefined(m) THEN Val(m) ELSE <<deploymentTarget>>

\* every in place of some: a model without options passes
MatchesEveryDeployment(model, allowed) ==
    LET opts == IF IsDefined(model.deploymentOptions)
                THEN Val(model.deploymentOptions) ELSE <<>>
    IN  \A i \in 1..Len(opts) : opts[i] \in Range(allowed)

\* (model.deploymentOptions || []).some(opt => allowed.includes(opt))
MatchesDeployment(model, allowed) ==
    LET opts == IF IsDefined(model.deploymentOptions)
                THEN Val(model.deploymentOptions) ELSE <<>>
    IN  \E i \in 1..Len(opts) : opts[i] \in Range(allowed)

\* hidden counts the models the filter kept instead of the ones it removed
filterByDeploymentHiddenKept(ms, deploymentTarget) ==
    IF ~IsDefined(deploymentTarget) \/ deploymentTarget = Some("")
    THEN [filtered |-> ms, total |-> Len(ms), hidden |-> 0]
    ELSE LET allowed == Allowed(Val(deploymentTarget))
             keep(model) == MatchesDeployment(model, allowed)
             filtered == SelectSeq(ms, keep)
         IN  [filtered |-> filtered, total |-> Len(ms), hidden |-> Len(filtered)]

\* deploymentTarget is Undefined for null; null and "" are falsy
filterByDeployment(ms, deploymentTarget) ==
    IF ~IsDefined(deploymentTarget) \/ deploymentTarget = Some("")
    THEN [filtered |-> ms, total |-> Len(ms), hidden |-> 0]
    ELSE LET allowed == Allowed(Val(deploymentTarget))
             keep(model) == MatchesDeployment(model, allowed)
             filtered == SelectSeq(ms, keep)
         IN  [filtered |-> filtered, total |-> Len(ms),
              hidden |-> Len(ms) - Len(filtered)]

\* the deployment filter applied to the tier's models instead of to the result
\* of the accuracy filter
TierEntryDeploymentOnly(taskData, tier, category, subcategory, accuracyThreshold, deploymentTarget) ==
    LET list == TierList(taskData, tier)
        tierModels == [j \in 1..Len(list) |->
                          [list[j] EXCEPT !.tier = Some(tier),
                                          !.category = Some(category),
                                          !.subcategory = Some(subcategory)]]
        accuracyResult == filterByAccuracy(tierModels, accuracyThreshold)
        deployResult == filterByDeployment(tierModels, deploymentTarget)
    IN  [models |-> rankBySize(deployResult.filtered),
         hidden |-> accuracyResult.hidden + deployResult.hidden]

\* hidden counting the accuracy filter's exclusions only
TierEntryHiddenByAccuracy(taskData, tier, category, subcategory, accuracyThreshold, deploymentTarget) ==
    LET list == TierList(taskData, tier)
        tierModels == [j \in 1..Len(list) |->
                          [list[j] EXCEPT !.tier = Some(tier),
                                          !.category = Some(category),
                                          !.subcategory = Some(subcategory)]]
        accuracyResult == filterByAccuracy(tierModels, accuracyThreshold)
        deployResult == filterByDeployment(accuracyResult.filtered, deploymentTarget)
    IN  [models |-> rankBySize(deployResult.filtered),
         hidden |-> accuracyResult.hidden]

\* the body of TIERS.forEach in getTaskModelsGroupedByTier, for one tier:
\* the entry result[tier]
TierEntry(taskData, tier, category, subcategory, accuracyThreshold, deploymentTarget) ==
    LET list == TierList(taskData, tier)
        tierModels == [j \in 1..Len(list) |->
                          [list[j] EXCEPT !.tier = Some(tier),
                                          !.category = Some(category),
                                          !.subcategory = Some(subcategory)]]
        accuracyResult == filterByAccuracy(tierModels, accuracyThreshold)
        deployResult == filterByDeployment(accuracyResult.filtered, deploymentTarget)
    IN  [models |-> rankBySize(deployResult.filtered),
         hidden |-> accuracyResult.hidden + deployResult.hidden]

\* the loop: result.totalHidden and result.totalShown accumulate tier by tier
RECURSIVE GroupTiers(_, _, _, _, _, _, _)
GroupTiers(result, index, taskData, category, subcategory, accuracyThreshold, deploymentTarget) ==
    IF index > Len(TIERS) THEN result
    ELSE LET tier == TIERS[index]
             entry == TierEntry(taskData, tier, category, subcategory,
                                accuracyThreshold, deploymentTarget)
             next == [k \in DOMAIN result \cup {tier} |->
                        IF k = tier THEN entry
                        ELSE IF k = "totalHidden" THEN result.totalHidden + entry.hidden
                        ELSE IF k = "totalShown" THEN result.totalShown + Len(entry.models)
                        ELSE result[k]]
         IN  GroupTiers(next, index + 1, taskData, category, subcategory,
                        accuracyThreshold, deploymentTarget)

\* the result for a pair without catalog entry lacking the xlarge tier
getTaskModelsGroupedByTierNoXlarge(data, category, subcategory, accuracyThreshold, deploymentTarget) ==
    LET taskData == TaskData(data, category, subcategory)
    IN  IF ~IsDefined(taskData)
        THEN [lightweight |-> [models |-> <<>>, hidden |-> 0],
              standard    |-> [models |-> <<>>, hidden |-> 0],
              advanced    |-> [models |-> <<>>, hidden |-> 0],
              totalHidden |-> 0,
              totalShown  |-> 0]
        ELSE GroupTiers([totalHidden |-> 0, totalShown |-> 0], 1, Val(taskData),
                        category, subcategory, accuracyThreshold, deploymentTarget)

getTaskModelsGroupedByTier(data, category, subcategory, accuracyThreshold, deploymentTarget) ==
    LET taskData == TaskData(data, category, subcategory)
    IN  IF ~IsDefined(taskData)
        THEN [lightweight |-> [models |-> <<>>, hidden |-> 0],
              standard    |-> [models |-> <<>>, hidden |-> 0],
              advanced    |-> [models |-> <<>>, hidden |-> 0],
              xlarge      |-> [models |-> <<>>, hidden |-> 0],
              totalHidden |-> 0,
              totalShown  |-> 0]
        ELSE GroupTiers([totalHidden |-> 0, totalShown |-> 0], 1, Val(taskData),
                        category, subcategory, accuracyThreshold, deploymentTarget)

\* a count that reads the lightweight list only
SubcategoryCountLightweight(tiers) ==
    IF TIERS[1] \in DOMAIN tiers THEN Len(tiers[TIERS[1]]) ELSE 0

\* count over TIERS of tiers[tier].length where tiers[tier] is an array
SubcategoryCount(tiers) ==
    SumSeq([i \in 1..Len(TIERS) |->
              IF TIERS[i] \in DOMAIN tiers THEN Len(tiers[TIERS[i]]) ELSE 0])

getAvailableCategories(data) ==
    LET subsOf(category) ==
            LET subcats == data.models[category]
                kept == {s \in DOMAIN subcats : SubcategoryCount(subcats[s]) > 0}
            IN  [s \in kept |-> SubcategoryCount(subcats[s])]
        cats == {c \in DOMAIN data.models : DOMAIN subsOf(c) # {}}
    IN  [c \in cats |-> subsOf(c)]

\* the (category, subcategory) pairs of the map getAvailableCategories returns,
\* as the form's options list them
PairsOfAvailable(available) ==
    UNION {{<<c, sc>> : sc \in DOMAIN available[c]} : c \in DOMAIN available}

----------------------------------------------------------------------------
(* Exceptions: where a ModelSelector operation can throw *)

\* JavaScript throws a TypeError when a property is read, or a method is
\* called, on undefined or null
ThrowsOnRead(receiver) == ~IsDefined(receiver)

\* (x || []) for an array that may be undefined
OrEmpty(x) == IF IsDefined(x) THEN x ELSE Some(<<>>)

\* getTaskModels reading [subcategory] without ?. and calling map on
\* taskData[tier] without || []
getTaskModelsThrowsUnguarded(data, category, subcategory) ==
    LET cat == Get(data.models, category)
        taskData == TaskData(data, category, subcategory)
    IN  \/ ThrowsOnRead(cat)
        \/ /\ IsDefined(taskData)
           /\ \E index \in 1..Len(TIERS) :
                 ThrowsOnRead(Get(Val(taskData), TIERS[index]))

\* the reads of getTaskModels:
\*   this.modelsData.models[category]?.[subcategory] reads [subcategory] only
\*   of a models[category] that is defined;
\*   (taskData[tier] || []).map(...) calls map on the list or on []
getTaskModelsThrows(data, category, subcategory) ==
    LET cat == Get(data.models, category)
        taskData == TaskData(data, category, subcategory)
    IN  \/ IsDefined(cat) /\ ThrowsOnRead(cat)
        \/ /\ IsDefined(taskData)
           /\ \E index \in 1..Len(TIERS) :
                 ThrowsOnRead(OrEmpty(Get(Val(taskData), TIERS[index])))

\* rankBySize subtracts tierPriority and sizeMB of two models: a missing number
\* gives NaN, no exception; slice(0, maxResults) reads the array sort returned
selectModelsThrows(data, category, subcategory, maxResults) ==
    getTaskModelsThrows(data, category, subcategory)

\* filterByAccuracy reads model.accuracy of each model; undefined ?? 0 is 0 and
\* nothing is read of the accuracy itself
filterByAccuracyThrows(ms, threshold) ==
    /\ threshold # 0
    /\ \E i \in DOMAIN ms : ThrowsOnRead(Some(ms[i]))

\* filterByDeployment calls some on (model.deploymentOptions || [])
filterByDeploymentThrows(ms, deploymentTarget) ==
    /\ IsDefined(deploymentTarget) /\ deploymentTarget # Some("")
    /\ \E i \in DOMAIN ms :
          \/ ThrowsOnRead(Some(ms[i]))
          \/ ThrowsOnRead(OrEmpty(ms[i].deploymentOptions))

\* the reads of getTaskModelsGroupedByTier: the same chain and tier lists as
\* getTaskModels, and the two filters on each tier's models
getTaskModelsGroupedByTierThrows(data, category, subcategory, accuracyThreshold, deploymentTarget) ==
    LET cat == Get(data.models, category)
        taskData == TaskData(data, category, subcategory)
    IN  \/ IsDefined(cat) /\ ThrowsOnRead(cat)
        \/ /\ IsDefined(taskData)
           /\ \E index \in 1..Len(TIERS) :
                 LET tier == TIERS[index]
                     list == TierList(Val(taskData), tier)
                     tierModels == [j \in 1..Len(list) |->
                                      [list[j] EXCEPT !.tier = Some(tier),
                                                      !.category = Some(category),
                                                      !.subcategory = Some(subcategory)]]
                     accuracyResult == filterByAccuracy(tierModels, accuracyThreshold)
                 IN  \/ ThrowsOnRead(OrEmpty(Get(Val(taskData), tier)))
                     \/ filterByAccuracyThrows(tierModels, accuracyThreshold)
                     \/ filterByDeploymentThrows(accuracyResult.filtered, deploymentTarget)

\* getAvailableCategories reads tiers[tier].length only when
\* Array.isArray(tiers[tier])
getAvailableCategoriesThrows(data) ==
    \E category \in DOMAIN data.models :
        \E subcategory \in DOMAIN data.models[category] :
            LET tiers == data.models[category][subcategory]
            IN  \E index \in 1..Len(TIERS) :
                    /\ TIERS[index] \in DOMAIN tiers
                    /\ ThrowsOnRead(Get(tiers, TIERS[index]))

----------------------------------------------------------------------------
(* Array objects: which array a call sorts in place *)

\* an array the call created; a list of the catalog is named by its path
\* <<category, subcategory, tier>>
FreshArray == <<>>

\* taskData[tier] || []: the catalog's list, or a new empty array
TierListArray(taskData, path) ==
    IF path[3] \in DOMAIN taskData THEN path ELSE FreshArray

\* no copy: the array handed on is the one received
SameArray(array) == array

\* array.map(f) creates an array
MapArray(array) == FreshArray

\* filterByAccuracy hands back models itself when threshold === 0, and the
\* array filter() creates otherwise
filterByAccuracyArray(array, threshold) ==
    IF threshold = 0 THEN array ELSE FreshArray

\* filterByDeployment hands back models itself when !deploymentTarget
filterByDeploymentArray(array, deploymentTarget) ==
    IF ~IsDefined(deploymentTarget) \/ deploymentTarget = Some("")
    THEN array ELSE FreshArray

\* the catalog after array.sort(byTierThenSize): sorting a list of the catalog
\* reorders the catalog
SortInPlace(data, array) ==
    IF array = FreshArray THEN data
    ELSE [data EXCEPT !.models[array[1]][array[2]][array[3]] = ArraySort(@)]

\* the catalog after selectModels: rankBySize sorts the array that flatMap
\* created in getTaskModels (or the [] returned for an unknown pair)
selectModelsCatalog(data, category, subcategory) ==
    SortInPlace(data, FreshArray)

\* the catalog after the TIERS.forEach of getTaskModelsGroupedByTier from tier
\* index on: each tier's rankBySize(deployResult.filtered)
RECURSIVE GroupTiersCatalog(_, _, _, _, _, _)
GroupTiersCatalog(data, index, category, subcategory, accuracyThreshold, deploymentTarget) ==
    IF index > Len(TIERS) THEN data
    ELSE LET taskData == Val(TaskData(data, category, subcategory))
             tierModels == MapArray(TierListArray(taskData,
                                        <<category, subcategory, TIERS[index]>>))
             accuracyFiltered == filterByAccuracyArray(tierModels, accuracyThreshold)
             deployFiltered == filterByDeploymentArray(accuracyFiltered, deploymentTarget)
         IN  GroupTiersCatalog(SortInPlace(data, deployFiltered), index + 1,
                               category, subcategory, accuracyThreshold, deploymentTarget)

\* the catalog after getTaskModelsGroupedByTier
getTaskModelsGroupedByTierCatalog(data, category, subcategory, accuracyThreshold, deploymentTarget) ==
    IF ~IsDefined(TaskData(data, category, subcategory)) THEN data
    ELSE GroupTiersCatalog(data, 1, category, subcategory,
                           accuracyThreshold, deploymentTarget)

----------------------------------------------------------------------------
(* The catalogs and arguments the model draws from *)

TierIndexes == 1..Len(TIERS)

\* sizeMB values of catalog models
Sizes == {20, 2000}

\* accuracy and deploymentOptions of catalog models, as in the fixture of
\* tests/deployment-filter.test.js, and a model that has neither field
Profiles ==
    { [accuracy |-> Undefined, deploymentOptions |-> Undefined],
      [accuracy |-> Some(770), deploymentOptions |-> Some(<<"browser", "mobile">>)],
      [accuracy |-> Some(880), deploymentOptions |-> Some(<<"browser">>)],
      [accuracy |-> Some(900), deploymentOptions |-> Some(<<"cloud", "server">>)] }

\* one model of a catalog: the tier list it is filed under, its size and profile
Slots == [tier : TierIndexes, sizeMB : Sizes, profile : Profiles]

\* the per-tier lists of one (category, subcategory): the models of slots in
\* their order; a tier without models is [] (as the aggregator writes it) or,
\* with emptyAbsent, a missing key (as in the tests' fixture)
BuildTaskData(slots, emptyAbsent) ==
    LET inTier(t) == SelectSeq(slots, LAMBDA s : s.tier = t)
        list(t) == [j \in 1..Len(inTier(t)) |->
                      CatalogModel(<<TIERS[t], j>>, inTier(t)[j].sizeMB,
                                   inTier(t)[j].profile.accuracy,
                                   inTier(t)[j].profile.deploymentOptions)]
        present == {t \in TierIndexes : ~emptyAbsent \/ inTier(t) # <<>>}
    IN  [name \in {TIERS[t] : t \in present} |->
            list(CHOOSE t \in TierIndexes : TIERS[t] = name)]

\* modelsData: one task with models, and a subcategory that is an empty object
BuildCatalog(taskData) ==
    [models |->
        [computer_vision |-> [image_classification |-> taskData],
         empty_cat       |-> [empty_sub |-> <<>>]]]

\* the catalog of the models of slots
Catalog(slots, emptyAbsent) == BuildCatalog(BuildTaskData(slots, emptyAbsent))

\* the (category, subcategory) pairs requested
Pairs ==
    { <<"computer_vision", "image_classification">>,
      <<"computer_vision", "unknown_sub">>,
      <<"unknown_cat", "image_classification">> }

\* accuracyThreshold arguments (percent, 0-95)
Thresholds == {0, 85}
ListThresholds == {0, 80, 85, 95}

\* deploymentTarget arguments: null, the three named targets
Targets == {Undefined, Some("browser"), Some("edge"), Some("cloud")}
\* and, for the list operation, a target that is not a key of targetMatches
ListTargets == Targets \cup {Some("server")}

\* maxResults arguments: omitted, or 1
MaxResultsArgs == {Undefined, Some(1)}

\* a model as getTaskModels (tierPriority defined) or
\* getTaskModelsGroupedByTier (tierPriority undefined) hands it on
ListModel(id, tierPriority, sizeMB, accuracy, deploymentOptions) ==
    [id |-> id, sizeMB |-> sizeMB, accuracy |-> accuracy,
     deploymentOptions |-> deploymentOptions,
     tier |-> IF IsDefined(tierPriority)
              THEN Some(TIERS[Val(tierPriority) + 1]) ELSE Some(TIERS[1]),
     tierPriority |-> tierPriority,
     category |-> Some("computer_vision"),
     subcategory |-> Some("image_classification")]

ListSizes == {20, 300, 2000}
ListAccuracies == {Undefined, Some(0), Some(770), Some(850), Some(900)}
ListDeployments ==
    { Undefined, Some(<<>>), Some(<<"browser">>), Some(<<"mobile">>),
      Some(<<"edge">>), Some(<<"cloud">>), Some(<<"server">>),
      Some(<<"browser", "mobile">>), Some(<<"cloud", "server">>),
      Some(<<"desktop">>) }

Lengths == 0..MaxLen

\* arrays that differ in what rankBySize reads: all with a tierPriority (f gives
\* each element's tierPriority and size) ...
RankedTierList(f) ==
    [i \in DOMAIN f |-> ListModel(i, Some(f[i][1]), f[i][2], Some(770), Some(<<"browser">>))]

\* ... or none (f gives each element's size)
RankedSizeList(f) ==
    [i \in DOMAIN f |-> ListModel(i, Undefined, f[i], Some(770), Some(<<"browser">>))]

\* arrays that differ in what filterByAccuracy reads
AccuracyList(f) ==
    [i \in DOMAIN f |-> ListModel(i, Undefined, 20, f[i], Some(<<"browser">>))]

\* arrays that differ in what filterByDeployment reads
DeploymentList(f) ==
    [i \in DOMAIN f |-> ListModel(i, Undefined, 20, Some(770), f[i])]

----------------------------------------------------------------------------
(* The state machine of a ModelSelector over its catalog *)

\* threw: the call ended in an exception instead of returning ret
NoCall == [op |-> "none", args |-> <<>>, ret |-> <<>>, threw |-> FALSE]

\* the page's variables as the script declares them, before onMount
PageDeclared ==
    /\ url = [category |-> Undefined, task |-> Undefined, deploy |-> Undefined]
    /\ mount = "initializing"
    /\ initStatus = "idle"
    /\ usingFallback = FALSE
    /\ classifierReady = FALSE
    /\ isLoading = FALSE
    /\ recommendations = <<>>
    /\ taskCategory = ""
    /\ taskSubcategory = ""
    /\ error = Undefined
    /\ prefillCategory = Undefined
    /\ prefillSubcategory = Undefined
    /\ prefillConfidence = 0
    /\ pending = {}
    /\ served = <<>>
    /\ submitted = Undefined

\* the components apart from the selector and the page, before they run
ClassifierIdle ==
    /\ similarities = <<>>
    /\ classification = Undefined

ImpactIdle ==
    /\ sizedModel = [sizeMB |-> Undefined]
    /\ scored = [tier |-> Undefined, environmentalScore |-> Undefined, impact |-> Undefined]

AggregatorIdle ==
    /\ modelsJson = [lastUpdated |-> Undefined, models |-> <<>>]
    /\ aggregation = Undefined
    /\ writes = 0
    /\ runs = 0

OffPageIdle == ClassifierIdle /\ ImpactIdle /\ AggregatorIdle

Init ==
    /\ \E n \in 0..MaxModels : \E slots \in [1..n -> Slots], emptyAbsent \in BOOLEAN :
            modelsData = Catalog(slots, emptyAbsent)
    /\ models = <<>>
    /\ call = NoCall
    /\ PageDeclared
    /\ OffPageIdle

SelectModels ==
    /\ call = NoCall
    /\ \E p \in Pairs, maxResults \in MaxResultsArgs :
        /\ call' = [op |-> "selectModels", args |-> <<p[1], p[2], maxResults>>,
                    ret |-> selectModels(modelsData, p[1], p[2], maxResults),
                    threw |-> selectModelsThrows(modelsData, p[1], p[2], maxResults)]
        /\ modelsData' = selectModelsCatalog(modelsData, p[1], p[2])
        /\ UNCHANGED <<models, pageVars>>
    /\ UNCHANGED offPageVars

GetTaskModels ==
    /\ call = NoCall
    /\ \E p \in Pairs :
        /\ call' = [op |-> "getTaskModels", args |-> <<p[1], p[2]>>,
                    ret |-> getTaskModels(modelsData, p[1], p[2]),
                    threw |-> getTaskModelsThrows(modelsData, p[1], p[2])]
        /\ UNCHANGED <<modelsData, models, pageVars>>
    /\ UNCHANGED offPageVars

GetTaskModelsGroupedByTier ==
    /\ call = NoCall
    /\ \E p \in Pairs, accuracyThreshold \in Thresholds, deploymentTarget \in Targets :
        /\ call' = [op |-> "getTaskModelsGroupedByTier",
                    args |-> <<p[1], p[2], accuracyThreshold, deploymentTarget>>,
                    ret |-> getTaskModelsGroupedByTier(modelsData, p[1], p[2],
                                accuracyThreshold, deploymentTarget),
                    threw |-> getTaskModelsGroupedByTierThrows(modelsData, p[1], p[2],
                                accuracyThreshold, deploymentTarget)]
        /\ modelsData' = getTaskModelsGroupedByTierCatalog(modelsData, p[1], p[2],
                                accuracyThreshold, deploymentTarget)
        /\ UNCHANGED <<models, pageVars>>
    /\ UNCHANGED offPageVars

GetAvailableCategories ==
    /\ call = NoCall
    /\ call' = [op |-> "getAvailableCategories", args |-> <<>>,
                ret |-> getAvailableCategories(modelsData),
                threw |-> getAvailableCategoriesThrows(modelsData)]
    /\ UNCHANGED <<modelsData, models, pageVars>>
    /\ UNCHANGED offPageVars

\* the call returns to its caller; the selector keeps nothing of it
Return ==
    /\ call # NoCall
    /\ call' = NoCall
    /\ UNCHANGED <<modelsData, models, pageVars>>
    /\ UNCHANGED offPageVars

Next ==
    \/ Return
    \/ SelectModels
    \/ GetTaskModels
    \/ GetTaskModelsGroupedByTier
    \/ GetAvailableCategories

Spec == Init /\ [][Next]_vars

----------------------------------------------------------------------------
(* The list operations of ModelSelector applied to a caller's array *)

InitLists ==
    /\ modelsData = Catalog(<<>>, FALSE)
    /\ \E n \in Lengths :
          \/ \E f \in [1..n -> {0, 1} \X ListSizes] : models = RankedTierList(f)
          \/ \E f \in [1..n -> ListSizes] : models = RankedSizeList(f)
          \/ \E f \in [1..n -> ListAccuracies] : models = AccuracyList(f)
          \/ \E f \in [1..n -> ListDeployments] : models = DeploymentList(f)
    /\ call = NoCall
    /\ PageDeclared
    /\ OffPageIdle

\* rankBySize sorts the caller's array in place and returns it
RankBySize ==
    /\ call = NoCall
    /\ call' = [op |-> "rankBySize", args |-> <<models>>,
                ret |-> rankBySize(models), threw |-> FALSE]
    /\ models' = rankBySize(models)
    /\ UNCHANGED <<modelsData, pageVars>>
    /\ UNCHANGED offPageVars

FilterByAccuracy ==
    /\ call = NoCall
    /\ \E threshold \in ListThresholds :
        /\ call' = [op |-> "filterByAccuracy", args |-> <<models, threshold>>,
                    ret |-> filterByAccuracy(models, threshold),
                    threw |-> filterByAccuracyThrows(models, threshold)]
        /\ UNCHANGED <<modelsData, models, pageVars>>
    /\ UNCHANGED offPageVars

FilterByDeployment ==
    /\ call = NoCall
    /\ \E deploymentTarget \in ListTargets :
        /\ call' = [op |-> "filterByDeployment", args |-> <<models, deploymentTarget>>,
                    ret |-> filterByDeployment(models, deploymentTarget),
                    threw |-> filterByDeploymentThrows(models, deploymentTarget)]
        /\ UNCHANGED <<modelsData, models, pageVars>>
    /\ UNCHANGED offPageVars

NextLists ==
    \/ Return
    \/ RankBySize
    \/ FilterByAccuracy
    \/ FilterByDeployment

SpecLists == InitLists /\ [][NextLists]_vars

----------------------------------------------------------------------------
(* The classifiers the page calls *)

\* a JavaScript string that may be null: null, undefined and "" are falsy
Truthy(o) == IsDefined(o) /\ o # Some("")

\* the progress states initialize reports through onProgress, in order
\* (downloading is skipped when the encoder is cached); error follows any state
\* that is not final
NextStatuses(status) ==
    CASE status = "idle"        -> {"downloading", "loading", "error"}
      [] status = "downloading" -> {"loading", "error"}
      [] status = "loading"     -> {"computing", "error"}
      [] status = "computing"   -> {"ready", "error"}
      [] OTHER                  -> {}

\* a classifier's result: the ranked predictions, the confidence in hundredths
\* and, for the embedding classifier, how many of the top 5 votes agree with the
\* winning label
ClassifierResult(subcategoryPredictions, predictions, confidence, agreeing) ==
    [subcategoryPredictions |-> subcategoryPredictions,
     predictions |-> predictions,
     confidence |-> confidence,
     agreeing |-> agreeing]

Prediction(category, subcategory) ==
    [category |-> category, subcategory |-> subcategory]

\* results of EmbeddingTaskClassifier.classify: a confident one (0.92, 5 of 5
\* votes) and a split vote (0.55, 2 of 5 votes)
EmbeddingResults ==
    { ClassifierResult(
          Some(<<Prediction(Some("computer_vision"), Some("image_classification"))>>),
          Some(<<Prediction(Some("computer_vision"), Undefined)>>),
          Some(92), Some(5)),
      ClassifierResult(
          Some(<<Prediction(Some("natural_language_processing"), Some("sentiment_analysis"))>>),
          Some(<<Prediction(Some("natural_language_processing"), Undefined)>>),
          Some(55), Some(2)) }

\* results of BrowserTaskClassifier.classify: a keyword match, and the priority
\* fallback, which names a category only
FallbackResults ==
    { ClassifierResult(
          Some(<<Prediction(Some("computer_vision"), Some("object_detection"))>>),
          Some(<<Prediction(Some("computer_vision"), Undefined)>>),
          Some(60), Undefined),
      ClassifierResult(
          Undefined,
          Some(<<Prediction(Some("natural_language_processing"), Undefined)>>),
          Some(10), Undefined) }

\* how a call of classify ends: with a result, or with an error thrown
Returned(result) == [threw |-> FALSE, result |-> Some(result)]
Thrown == [threw |-> TRUE, result |-> Undefined]

\* the embedding classifier surfaces its failures as errors; the fallback
\* classifier never fails
EmbeddingOutcomes == {Returned(r) : r \in EmbeddingResults} \cup {Thrown}

----------------------------------------------------------------------------
(* The page: onMount, handleClassify, handleFormSubmit *)

\* result.subcategoryPredictions?.[0] || result.predictions?.[0]
TopPrediction(result) ==
    LET first(list) == IF IsDefined(list) /\ Len(Val(list)) > 0
                       THEN Some(Val(list)[1]) ELSE Undefined
    IN  IF IsDefined(first(result.subcategoryPredictions))
        THEN first(result.subcategoryPredictions)
        ELSE first(result.predictions)

\* handleClassify after the await: the pre-fill written from a result
ApplyResult(result) ==
    LET topPrediction == TopPrediction(result)
    IN  IF IsDefined(topPrediction) /\ Truthy(Val(topPrediction).category)
        THEN /\ prefillCategory' = Val(topPrediction).category
             /\ prefillSubcategory' = IF Truthy(Val(topPrediction).subcategory)
                                      THEN Val(topPrediction).subcategory
                                      ELSE Undefined
             /\ prefillConfidence' = IF IsDefined(result.confidence)
                                     THEN Val(result.confidence) ELSE 0
        ELSE UNCHANGED prefillVars

\* a branch that asks for the fallback flag only
RoutesToEmbeddingUnlessFallback == ~usingFallback

\* no branch: every request goes to the embedding classifier
RoutesToEmbeddingAlways == TRUE

\* the branch of handleClassify: !usingFallback && classifierReady
RoutesToEmbedding == ~usingFallback /\ classifierReady

\* the classify events of the session so far
Started == Len(served) + Cardinality(pending)

\* a handleClassify call: its number, the classifier it called, the progress
\* state of initialize at the call, and the calls pending when it started
Request(classifier) ==
    [id |-> Started + 1, classifier |-> classifier, status |-> initStatus,
     during |-> {r.id : r \in pending}]

Ended(request, outcome) ==
    [id |-> request.id, classifier |-> request.classifier,
     status |-> request.status, during |-> request.during, outcome |-> outcome]

\* the detail of a submit event
Detail(category, subcategory, deploymentTarget) ==
    [category |-> category, subcategory |-> subcategory,
     deploymentTarget |-> deploymentTarget]

\* the messages the page shows
InitFailedMessage == <<"Failed to initialize the AI model advisor. Please refresh the page.">>
NoModelsMessage(detail) ==
    IF Truthy(detail.deploymentTarget)
    THEN <<"No ready models found for this task", Val(detail.deploymentTarget)>>
    ELSE <<"No models found for", detail.category, detail.subcategory>>

\* arguments that leave the deployment target out
SelectorArgumentsAnyEnvironment(detail) ==
    <<detail.category, detail.subcategory, 0, Undefined>>

\* the arguments of modelSelector.getTaskModelsGroupedByTier(category,
\* subcategory, 0, deploymentTarget)
SelectorArguments(detail) ==
    <<detail.category, detail.subcategory, 0, detail.deploymentTarget>>

\* handleFormSubmit without the reset of error at its start
HandleFormSubmitKeepsError(detail) ==
    LET args == SelectorArguments(detail)
        groupedModels == getTaskModelsGroupedByTier(modelsData, args[1], args[2],
                             args[3], args[4])
        threw == getTaskModelsGroupedByTierThrows(modelsData, args[1], args[2],
                             args[3], args[4])
        filteredRecommendations ==
            groupedModels.lightweight.models \o groupedModels.standard.models
                \o groupedModels.advanced.models
                \o (IF "xlarge" \in DOMAIN groupedModels
                    THEN groupedModels.xlarge.models ELSE <<>>)
    IN  /\ call' = [op |-> "getTaskModelsGroupedByTier", args |-> args,
                    ret |-> groupedModels, threw |-> threw]
        /\ modelsData' = getTaskModelsGroupedByTierCatalog(modelsData, args[1], args[2],
                             args[3], args[4])
        /\ taskCategory' = detail.category
        /\ taskSubcategory' = detail.subcategory
        /\ IF threw
           THEN /\ error' = Some(<<"An error occurred. Please try again.">>)
                /\ recommendations' = <<>>
                /\ UNCHANGED url
           ELSE /\ IF filteredRecommendations = <<>>
                   THEN /\ error' = Some(NoModelsMessage(detail))
                        /\ recommendations' = <<>>
                   ELSE /\ error' = error
                        /\ recommendations' = filteredRecommendations
                /\ url' = [category |-> Some(detail.category),
                           task |-> Some(detail.subcategory),
                           deploy |-> IF Truthy(detail.deploymentTarget)
                                      THEN detail.deploymentTarget ELSE Undefined]
        /\ isLoading' = FALSE
        /\ submitted' = Some(detail)

\* handleFormSubmit({ detail }); the scroll and the highlight are not modelled
HandleFormSubmit(detail) ==
    LET args == SelectorArguments(detail)
        groupedModels == getTaskModelsGroupedByTier(modelsData, args[1], args[2],
                             args[3], args[4])
        threw == getTaskModelsGroupedByTierThrows(modelsData, args[1], args[2],
                             args[3], args[4])
        filteredRecommendations ==
            groupedModels.lightweight.models \o groupedModels.standard.models
                \o groupedModels.advanced.models
                \o (IF "xlarge" \in DOMAIN groupedModels
                    THEN groupedModels.xlarge.models ELSE <<>>)
    IN  /\ call' = [op |-> "getTaskModelsGroupedByTier", args |-> args,
                    ret |-> groupedModels, threw |-> threw]
        /\ modelsData' = getTaskModelsGroupedByTierCatalog(modelsData, args[1], args[2],
                             args[3], args[4])
        /\ taskCategory' = detail.category
        /\ taskSubcategory' = detail.subcategory
        /\ IF threw
           THEN /\ error' = Some(<<"An error occurred. Please try again.">>)
                /\ recommendations' = <<>>
                /\ UNCHANGED url
           ELSE /\ IF filteredRecommendations = <<>>
                   THEN /\ error' = Some(NoModelsMessage(detail))
                        /\ recommendations' = <<>>
                   ELSE /\ error' = Undefined
                        /\ recommendations' = filteredRecommendations
                /\ url' = [category |-> Some(detail.category),
                           task |-> Some(detail.subcategory),
                           deploy |-> IF Truthy(detail.deploymentTarget)
                                      THEN detail.deploymentTarget ELSE Undefined]
        /\ isLoading' = FALSE
        /\ submitted' = Some(detail)

\* onMount, step 2: the category and task parameters of the URL
HandleUrlParameters ==
    IF Truthy(url.category) /\ Truthy(url.task)
    THEN HandleFormSubmit(Detail(Val(url.category), Val(url.task),
                                 IF Truthy(url.deploy) THEN url.deploy ELSE Undefined))
    ELSE UNCHANGED <<modelsData, call, submitVars>>

\* the URLs a session starts from
Urls ==
    { [category |-> Undefined, task |-> Undefined, deploy |-> Undefined],
      [category |-> Some("computer_vision"), task |-> Undefined, deploy |-> Undefined],
      [category |-> Some("computer_vision"), task |-> Some("image_classification"),
       deploy |-> Undefined],
      [category |-> Some("unknown_cat"), task |-> Some("image_classification"),
       deploy |-> Some("browser")] }

\* what the form submits: a category and a subcategory chosen from
\* availableCategories, and selectedDeployment || null
FormDetails ==
    {Detail(p[1], p[2], deploymentTarget) :
        p \in PairsOfAvailable(getAvailableCategories(modelsData)),
        deploymentTarget \in {Undefined, Some("browser")}}

\* the catalogs of the page: one without models, one with a lightweight
\* model for the browser and a standard model for the cloud, and one that
\* lists the larger of two lightweight models first, before an advanced model
PageSlots ==
    { <<>>,
      << [tier |-> 1, sizeMB |-> 20,
          profile |-> [accuracy |-> Some(770),
                       deploymentOptions |-> Some(<<"browser", "mobile">>)]],
         [tier |-> 2, sizeMB |-> 2000,
          profile |-> [accuracy |-> Some(900),
                       deploymentOptions |-> Some(<<"cloud", "server">>)]] >>,
      << [tier |-> 1, sizeMB |-> 300,
          profile |-> [accuracy |-> Some(850),
                       deploymentOptions |-> Some(<<"browser">>)]],
         [tier |-> 1, sizeMB |-> 20,
          profile |-> [accuracy |-> Some(770),
                       deploymentOptions |-> Some(<<"browser", "mobile">>)]],
         [tier |-> 3, sizeMB |-> 5000,
          profile |-> [accuracy |-> Some(900),
                       deploymentOptions |-> Some(<<"server">>)]] >> }

\* the page when onMount reaches await taskClassifier.initialize(tasksData)
InitPage ==
    /\ \E slots \in PageSlots : modelsData = Catalog(slots, FALSE)
    /\ models = <<>>
    /\ call = NoCall
    /\ url \in Urls
    /\ mount = "initializing"
    /\ initStatus = "idle"
    /\ usingFallback = FALSE
    /\ classifierReady = FALSE
    /\ isLoading = FALSE
    /\ recommendations = <<>>
    /\ taskCategory = ""
    /\ taskSubcategory = ""
    /\ error = Undefined
    /\ prefillCategory = Undefined
    /\ prefillSubcategory = Undefined
    /\ prefillConfidence = 0
    /\ pending = {}
    /\ served = <<>>
    /\ submitted = Undefined
    /\ OffPageIdle

\* the onProgress callback; the progress display (modelLoadProgress,
\* downloadPercentage, isModelLoading) is not modelled
OnProgress ==
    /\ mount = "initializing"
    /\ \E status \in NextStatuses(initStatus) :
        /\ initStatus' = status
        /\ classifierReady' = IF status = "ready" THEN TRUE ELSE classifierReady
        /\ usingFallback' = IF status = "error" THEN TRUE ELSE usingFallback
    /\ UNCHANGED <<modelsData, models, call, mount, pending, served,
                   submitVars, prefillVars>>
    /\ UNCHANGED offPageVars

\* initialize resolves with success after the ready state
InitializeSucceeds ==
    /\ mount = "initializing"
    /\ initStatus = "ready"
    /\ classifierReady' = TRUE
    /\ usingFallback' = FALSE
    /\ HandleUrlParameters
    /\ mount' = "mounted"
    /\ UNCHANGED <<models, initStatus, pending, served, prefillVars>>
    /\ UNCHANGED offPageVars

\* initialize resolves without success: after the error state, or from a state
\* that is not final without reporting error
InitializeFails ==
    /\ mount = "initializing"
    /\ initStatus # "ready"
    /\ initStatus' = "error"
    /\ usingFallback' = TRUE
    /\ HandleUrlParameters
    /\ mount' = "mounted"
    /\ UNCHANGED <<models, classifierReady, pending, served, prefillVars>>
    /\ UNCHANGED offPageVars

\* initialize throws: the catch of onMount
InitializeThrows ==
    /\ mount = "initializing"
    /\ initStatus # "ready"
    /\ initStatus' = "error"
    /\ error' = Some(InitFailedMessage)
    /\ mount' = "failed"
    /\ UNCHANGED <<modelsData, models, call, usingFallback, classifierReady,
                   pending, served, url, isLoading, recommendations,
                   taskCategory, taskSubcategory, submitted, prefillVars>>
    /\ UNCHANGED offPageVars

\* a classify event of the form (the debounced text input): handleClassify up
\* to its await. The fallback classifier never suspends, so its result is
\* applied in the same step.
HandleClassify ==
    /\ Started < MaxRequests
    /\ IF RoutesToEmbedding
       THEN /\ pending' = pending \cup {Request("embedding")}
            /\ UNCHANGED <<served, prefillVars>>
       ELSE \E result \in FallbackResults :
            /\ served' = Append(served, Ended(Request("fallback"), Returned(result)))
            /\ ApplyResult(result)
            /\ UNCHANGED pending
    /\ UNCHANGED <<modelsData, models, call, mount, initStatus, usingFallback,
                   classifierReady, submitVars>>
    /\ UNCHANGED offPageVars

\* a catch that also withdraws the label detected before
ClassifyResolvedClearsPrefill ==
    /\ \E request \in pending, outcome \in EmbeddingOutcomes :
        /\ pending' = pending \ {request}
        /\ served' = Append(served, Ended(request, outcome))
        /\ IF outcome.threw
           THEN /\ prefillCategory' = Undefined
                /\ prefillSubcategory' = Undefined
                /\ prefillConfidence' = 0
           ELSE ApplyResult(Val(outcome.result))
    /\ UNCHANGED <<modelsData, models, call, mount, initStatus, usingFallback,
                   classifierReady, submitVars>>
    /\ UNCHANGED offPageVars

\* taskClassifier.classify settles: handleClassify after its await, or its catch
ClassifyResolved ==
    /\ \E request \in pending, outcome \in EmbeddingOutcomes :
        /\ pending' = pending \ {request}
        /\ served' = Append(served, Ended(request, outcome))
        /\ IF outcome.threw
           THEN UNCHANGED prefillVars
           ELSE ApplyResult(Val(outcome.result))
    /\ UNCHANGED <<modelsData, models, call, mount, initStatus, usingFallback,
                   classifierReady, submitVars>>
    /\ UNCHANGED offPageVars

\* a submit event of the form
SubmitForm ==
    /\ \E detail \in FormDetails : HandleFormSubmit(detail)
    /\ UNCHANGED <<models, mount, initStatus, usingFallback, classifierReady,
                   pending, served, prefillVars>>
    /\ UNCHANGED offPageVars

NextPage ==
    \/ OnProgress
    \/ InitializeSucceeds
    \/ InitializeFails
    \/ InitializeThrows
    \/ HandleClassify
    \/ ClassifyResolved
    \/ SubmitForm

SpecPage == InitPage /\ [][NextPage]_vars

----------------------------------------------------------------------------
(* Properties: ranking *)

\* the position of a tier name in lightweight, standard, advanced, xlarge
TierRank(tierName) == CHOOSE i \in TierIndexes : TIERS[i] = tierName

\* a and b stand in ranking order: an earlier tier, or the same tier and a
\* size that is not larger
InRankOrder(a, b) ==
    \/ TierRank(Val(a.tier)) < TierRank(Val(b.tier))
    \/ /\ a.tier = b.tier
       /\ a.sizeMB <= b.sizeMB

IdsOf(ms) == [i \in DOMAIN ms |-> ms[i].id]

\* the catalog with every field but id and sizeMB taken off its models
WithoutOtherFields(data) ==
    [models |->
        [c \in DOMAIN data.models |->
            [sc \in DOMAIN data.models[c] |->
                [t \in DOMAIN data.models[c][sc] |->
                    [j \in DOMAIN data.models[c][sc][t] |->
                        CatalogModel(data.models[c][sc][t][j].id,
                                     data.models[c][sc][t][j].sizeMB,
                                     Undefined, Undefined)]]]]]

\* C1: what selectModels returns (rankBySize over getTaskModels, cut to
\* maxResults, 3 when omitted) is ordered by tier (lightweight, standard,
\* advanced, xlarge) and by sizeMB ascending within a tier; it is the head of
\* that order over all the task's models; and the order is the same when the
\* models carry no accuracy and no deploymentOptions.
C1_RankedByTierThenSize ==
    call.op = "selectModels" =>
        LET ret == call.ret
            all == getTaskModels(modelsData, call.args[1], call.args[2])
            n   == IF IsDefined(call.args[3]) THEN Val(call.args[3]) ELSE 3
        IN  /\ \A i, j \in DOMAIN ret : i < j => InRankOrder(ret[i], ret[j])
            /\ Len(ret) = IF n < Len(all) THEN n ELSE Len(all)
            /\ Range(ret) \subseteq Range(all)
            /\ Cardinality(Range(ret)) = Len(ret)
            /\ \A m \in Range(all) \ Range(ret) :
                  \A i \in DOMAIN ret : InRankOrder(ret[i], m)
            /\ IdsOf(ret) = IdsOf(selectModels(WithoutOtherFields(modelsData),
                                call.args[1], call.args[2], call.args[3]))

\* a lightweight model of 2000 MB is returned ahead of a standard model of 20 MB
C1_Witness ==
    /\ call.op = "selectModels"
    /\ call.args[3] = Undefined
    /\ Len(call.ret) = 2
    /\ call.ret[1].tier = Some("lightweight") /\ call.ret[1].sizeMB = 2000
    /\ call.ret[2].tier = Some("standard") /\ call.ret[2].sizeMB = 20
    /\ call.ret[1].accuracy # call.ret[2].accuracy

\* the position in the result of the model m of the input (the models of an
\* array have distinct ids)
RankedPos(ret, m) == CHOOSE k \in DOMAIN ret : ret[k].id = m.id

\* C2 as stated: of two models of one tier, A is ranked before B if and only
\* if A.sizeMB <= B.sizeMB, equal sizes included.
C2_AsStated ==
    call.op = "rankBySize" =>
        LET in == call.args[1]
            ret == call.ret
        IN  \A i, j \in DOMAIN in :
                (i # j /\ in[i].tier = in[j].tier) =>
                    (RankedPos(ret, in[i]) < RankedPos(ret, in[j])
                        <=> in[i].sizeMB <= in[j].sizeMB)

\* C2 (amended): rankBySize returns a permutation of its input in which, of two
\* models of one tier, A is before B if and only if A.sizeMB < B.sizeMB, or the
\* sizes are equal and A was before B in the input.
C2_StableOrder ==
    call.op = "rankBySize" =>
        LET in == call.args[1]
            ret == call.ret
        IN  /\ Len(ret) = Len(in)
            /\ Range(ret) = Range(in)
            /\ \A i, j \in DOMAIN in :
                  (i # j /\ in[i].tier = in[j].tier) =>
                      (RankedPos(ret, in[i]) < RankedPos(ret, in[j])
                          <=> \/ in[i].sizeMB < in[j].sizeMB
                              \/ in[i].sizeMB = in[j].sizeMB /\ i < j)

\* an input whose first two models have one tier and one size, and whose third,
\* smaller one is moved ahead of both
C2_Witness ==
    /\ call.op = "rankBySize"
    /\ IdsOf(call.args[1]) = <<1, 2, 3>>
    /\ call.args[1][1].tier = call.args[1][2].tier
    /\ call.args[1][2].tier = call.args[1][3].tier
    /\ call.args[1][1].sizeMB = call.args[1][2].sizeMB
    /\ call.args[1][3].sizeMB < call.args[1][1].sizeMB
    /\ IdsOf(call.ret) = <<3, 1, 2>>

\* C3: rankBySize applied to an array that rankBySize has just ranked (it sorts
\* in place, so the caller's array is its result) leaves the order as it is.
C3_RankIdempotent ==
    call.op = "rankBySize" =>
        /\ models = call.ret
        /\ rankBySize(models) = models

\* a call that reordered an array with two models of one tier and size
C3_Witness ==
    /\ call.op = "rankBySize"
    /\ call.args[1] # call.ret
    /\ \E i, j \in DOMAIN call.ret :
          /\ i < j
          /\ call.ret[i].tierPriority = call.ret[j].tierPriority
          /\ call.ret[i].sizeMB = call.ret[j].sizeMB

----------------------------------------------------------------------------
(* Properties: the accuracy and deployment filters *)

\* the elements of ms that satisfy Test, in the order of ms
Kept(ms, Test(_)) == SelectSeq(ms, Test)

\* accuracy >= threshold / 100 with a missing accuracy read as 0; accuracy is
\* in thousandths and threshold in percent
MeetsAccuracy(m, threshold) ==
    IF IsDefined(m.accuracy)
    THEN Val(m.accuracy) * 100 >= threshold * 1000
    ELSE 0 >= threshold

\* C4: filterByAccuracy(models, 0) returns every input model in the input
\* order, hidden = 0 and total = the input length, models without an accuracy
\* included.
C4_ThresholdZeroKeepsAll ==
    (call.op = "filterByAccuracy" /\ call.args[2] = 0) =>
        /\ call.ret.filtered = call.args[1]
        /\ call.ret.hidden = 0
        /\ call.ret.total = Len(call.args[1])

\* threshold 0 on an array that holds a model without accuracy and one of
\* accuracy 0
C4_Witness ==
    /\ call.op = "filterByAccuracy"
    /\ call.args[2] = 0
    /\ \E i, j \in DOMAIN call.args[1] :
          /\ call.args[1][i].accuracy = Undefined
          /\ call.args[1][j].accuracy = Some(0)
    /\ Len(call.ret.filtered) = 3

\* C5: for a threshold other than 0, filterByAccuracy keeps exactly the models
\* whose accuracy is >= threshold / 100, a missing accuracy counting as 0 (so no
\* model without accuracy is kept), in the input order, and reports
\* hidden = input length - kept length.
C5_KeepsAtOrAboveThreshold ==
    (call.op = "filterByAccuracy" /\ call.args[2] # 0) =>
        LET in == call.args[1]
            atLeast(m) == MeetsAccuracy(m, call.args[2])
        IN  /\ call.ret.filtered = Kept(in, atLeast)
            /\ \A m \in Range(call.ret.filtered) : IsDefined(m.accuracy)
            /\ call.ret.hidden = Len(in) - Len(call.ret.filtered)
            /\ call.ret.total = Len(in)

\* threshold 85 on <<no accuracy, 0.85, 0.77>>: only the 0.85 model is kept
C5_Witness ==
    /\ call.op = "filterByAccuracy"
    /\ call.args[2] = 85
    /\ Len(call.args[1]) = 3
    /\ call.args[1][1].accuracy = Undefined
    /\ call.args[1][2].accuracy = Some(850)
    /\ call.args[1][3].accuracy = Some(770)
    /\ IdsOf(call.ret.filtered) = <<2>>
    /\ call.ret.hidden = 2

\* the deployment options the spec allows for a named target
AllowSet(target) ==
    IF target = "browser" THEN {"browser"}
    ELSE IF target = "edge" THEN {"browser", "edge", "mobile"}
    ELSE {"browser", "edge", "mobile", "cloud", "server"}

\* the deployment options a model lists; none when the field is missing
OptionsOf(m) ==
    IF IsDefined(m.deploymentOptions) THEN Range(Val(m.deploymentOptions)) ELSE {}

NamedTargets == {"browser", "edge", "cloud"}

\* C6: for the array a filterByDeployment call was given, the models kept for
\* 'browser' are among those kept for 'edge', which are among those kept for
\* 'cloud'; 'cloud' keeps every model that lists one of browser, mobile, edge,
\* cloud, server; and the call's own result is the one of its target.
C6_DeploymentMonotone ==
    call.op = "filterByDeployment" =>
        LET in == call.args[1]
            kept(target) == Range(filterByDeployment(in, Some(target)).filtered)
        IN  /\ kept("browser") \subseteq kept("edge")
            /\ kept("edge") \subseteq kept("cloud")
            /\ \A m \in Range(in) :
                  OptionsOf(m) \cap {"browser", "mobile", "edge", "cloud", "server"} # {}
                      => m \in kept("cloud")
            /\ \A target \in NamedTargets :
                  call.args[2] = Some(target) => Range(call.ret.filtered) = kept(target)

\* a 'cloud' call that keeps a server model, a mobile model and a browser model:
\* 'edge' keeps two of them and 'browser' one
C6_Witness ==
    /\ call.op = "filterByDeployment"
    /\ call.args[2] = Some("cloud")
    /\ Len(call.args[1]) = 3
    /\ call.args[1][1].deploymentOptions = Some(<<"server">>)
    /\ call.args[1][2].deploymentOptions = Some(<<"mobile">>)
    /\ call.args[1][3].deploymentOptions = Some(<<"browser">>)
    /\ Len(call.ret.filtered) = 3
    /\ Len(filterByDeployment(call.args[1], Some("edge")).filtered) = 2
    /\ Len(filterByDeployment(call.args[1], Some("browser")).filtered) = 1

\* C7: filterByDeployment with a null target returns the input and hidden = 0;
\* with browser, edge or cloud it keeps exactly the models whose
\* deploymentOptions meet the target's allow-set (none for a model without
\* deploymentOptions), in the input order, and hidden = input length - kept
\* length.
C7_KeepsAllowedDeployments ==
    call.op = "filterByDeployment" =>
        LET in == call.args[1]
            target == call.args[2]
            allowed(m) == OptionsOf(m) \cap AllowSet(Val(target)) # {}
        IN  /\ target = Undefined =>
                  /\ call.ret.filtered = in
                  /\ call.ret.hidden = 0
            /\ (IsDefined(target) /\ Val(target) \in NamedTargets) =>
                  /\ call.ret.filtered = Kept(in, allowed)
                  /\ call.ret.hidden = Len(in) - Len(call.ret.filtered)
            /\ IsDefined(target) =>
                  \A m \in Range(call.ret.filtered) : IsDefined(m.deploymentOptions)
            /\ call.ret.total = Len(in)

\* 'edge' on <<browser+mobile, no deploymentOptions, edge>> keeps the first and
\* the last
C7_Witness ==
    /\ call.op = "filterByDeployment"
    /\ call.args[2] = Some("edge")
    /\ Len(call.args[1]) = 3
    /\ call.args[1][1].deploymentOptions = Some(<<"browser", "mobile">>)
    /\ call.args[1][2].deploymentOptions = Undefined
    /\ call.args[1][3].deploymentOptions = Some(<<"edge">>)
    /\ IdsOf(call.ret.filtered) = <<1, 3>>
    /\ call.ret.hidden = 1

----------------------------------------------------------------------------
(* Properties: getTaskModelsGroupedByTier *)

TierNames == Range(TIERS)

\* the catalog's list of a tier of the requested pair; empty when the catalog
\* has no such pair or the pair has no such tier
CatalogTier(data, category, subcategory, tier) ==
    LET cat == IF category \in DOMAIN data.models
               THEN data.models[category] ELSE <<>>
        task == IF subcategory \in DOMAIN cat THEN cat[subcategory] ELSE <<>>
    IN  IF tier \in DOMAIN task THEN task[tier] ELSE <<>>

PassesAccuracy(m, threshold) == threshold = 0 \/ MeetsAccuracy(m, threshold)

PassesDeployment(m, target) ==
    target = Undefined \/ OptionsOf(m) \cap AllowSet(Val(target)) # {}

\* the catalog record a returned model was copied from
Untagged(m) ==
    [m EXCEPT !.tier = Undefined, !.category = Undefined, !.subcategory = Undefined]

\* how many positions of ms hold a model that satisfies Test
Count(ms, Test(_)) == Cardinality({i \in DOMAIN ms : Test(ms[i])})

\* C8: the models getTaskModelsGroupedByTier lists under a tier are exactly the
\* catalog's models of that tier that pass the accuracy filter and the
\* deployment filter, each tagged with the tier (and the requested pair),
\* ordered by sizeMB ascending.
C8_GroupedShowsPassingModels ==
    call.op = "getTaskModelsGroupedByTier" =>
        \A tier \in TierNames :
            LET shown == call.ret[tier].models
                list == CatalogTier(modelsData, call.args[1], call.args[2], tier)
                passes(m) == /\ PassesAccuracy(m, call.args[3])
                             /\ PassesDeployment(m, call.args[4])
            IN  /\ {Untagged(shown[i]) : i \in DOMAIN shown} = Range(Kept(list, passes))
                /\ Len(shown) = Len(Kept(list, passes))
                /\ \A i \in DOMAIN shown :
                      /\ shown[i].tier = Some(tier)
                      /\ shown[i].category = Some(call.args[1])
                      /\ shown[i].subcategory = Some(call.args[2])
                /\ \A i, j \in DOMAIN shown : i < j => shown[i].sizeMB <= shown[j].sizeMB

\* the spec's scenario: threshold 85 and 'browser' over a lightweight model of
\* accuracy 0.77 (browser, mobile) and a standard model of accuracy 0.88
\* (browser): lightweight is empty, standard holds the 0.88 model, totalShown 1
C8_Witness ==
    /\ call.op = "getTaskModelsGroupedByTier"
    /\ call.args = <<"computer_vision", "image_classification", 85, Some("browser")>>
    /\ Len(CatalogTier(modelsData, "computer_vision", "image_classification", "lightweight")) = 1
    /\ CatalogTier(modelsData, "computer_vision", "image_classification",
                   "lightweight")[1].accuracy = Some(770)
    /\ call.ret["lightweight"].models = <<>>
    /\ Len(call.ret["standard"].models) = 1
    /\ call.ret["standard"].models[1].accuracy = Some(880)
    /\ call.ret.totalShown = 1

\* C9: a tier's hidden count is the number of its models the accuracy filter
\* excludes plus the number of the remaining ones the deployment filter
\* excludes; totalHidden is the sum of the tiers' hidden counts and totalShown
\* the sum of the lengths of the tiers' lists.
C9_HiddenCounts ==
    call.op = "getTaskModelsGroupedByTier" =>
        LET failsAccuracy(m) == ~PassesAccuracy(m, call.args[3])
            failsDeployment(m) == /\ PassesAccuracy(m, call.args[3])
                                  /\ ~PassesDeployment(m, call.args[4])
            list(tier) == CatalogTier(modelsData, call.args[1], call.args[2], tier)
        IN  /\ \A tier \in TierNames :
                  call.ret[tier].hidden =
                      Count(list(tier), failsAccuracy) + Count(list(tier), failsDeployment)
            /\ call.ret.totalHidden =
                  SumSeq([i \in TierIndexes |-> call.ret[TIERS[i]].hidden])
            /\ call.ret.totalShown =
                  SumSeq([i \in TierIndexes |-> Len(call.ret[TIERS[i]].models)])

\* threshold 85 and 'browser' over an advanced tier of two models: one of
\* accuracy 0.77 that the accuracy filter excludes and one of accuracy 0.90
\* (cloud, server) that the deployment filter excludes
C9_Witness ==
    /\ call.op = "getTaskModelsGroupedByTier"
    /\ call.args[3] = 85
    /\ call.args[4] = Some("browser")
    /\ LET list == CatalogTier(modelsData, call.args[1], call.args[2], "advanced")
       IN  /\ Len(list) = 2
           /\ list[1].accuracy = Some(770)
           /\ list[2].accuracy = Some(900)
    /\ call.ret["advanced"].hidden = 2
    /\ call.ret.totalHidden = 2
    /\ call.ret.totalShown = 0

EmptyTier == [models |-> <<>>, hidden |-> 0]

\* C10: the result of getTaskModelsGroupedByTier always has the four tiers and
\* the two totals; when the catalog has no entry for the pair (an unknown
\* category included) every tier is empty with hidden = 0 and both totals are
\* 0; when the pair exists but lacks a tier, that tier is present and empty.
C10_EmptyButWellFormed ==
    call.op = "getTaskModelsGroupedByTier" =>
        LET taskData == TaskData(modelsData, call.args[1], call.args[2])
        IN  /\ DOMAIN call.ret = TierNames \cup {"totalHidden", "totalShown"}
            /\ taskData = Undefined =>
                  /\ \A tier \in TierNames : call.ret[tier] = EmptyTier
                  /\ call.ret.totalHidden = 0
                  /\ call.ret.totalShown = 0
            /\ IsDefined(taskData) =>
                  \A tier \in TierNames \ DOMAIN Val(taskData) :
                      call.ret[tier] = EmptyTier

\* a request for an unknown category of a catalog that has models
C10_Witness ==
    /\ call.op = "getTaskModelsGroupedByTier"
    /\ call.args[1] = "unknown_cat"
    /\ call.args[3] = 85
    /\ getTaskModels(modelsData, "computer_vision", "image_classification") # <<>>
    /\ call.ret.xlarge = EmptyTier
    /\ call.ret.totalShown = 0

----------------------------------------------------------------------------
(* Properties: missing data *)

\* C11: no ModelSelector operation throws on missing data. A request for an
\* unknown category or an unknown subcategory returns an empty list
\* (selectModels, getTaskModels) or four empty tiers with zero counts
\* (getTaskModelsGroupedByTier); a tier the catalog does not list contributes
\* no model and counts as empty; a model without accuracy (threshold above 0)
\* or without deploymentOptions (a target given) is left out of the shown
\* models by the filters; getAvailableCategories lists no pair without models.
C11_NoThrowOnMissingData ==
    /\ ~call.threw
    /\ call.op \in {"selectModels", "getTaskModels"} =>
          LET taskData == TaskData(modelsData, call.args[1], call.args[2])
          IN  /\ taskData = Undefined => call.ret = <<>>
              /\ IsDefined(taskData) =>
                    \A i \in DOMAIN call.ret :
                        Val(call.ret[i].tier) \in DOMAIN Val(taskData)
    /\ call.op = "getTaskModelsGroupedByTier" =>
          LET taskData == TaskData(modelsData, call.args[1], call.args[2])
          IN  /\ taskData = Undefined =>
                    /\ \A tier \in TierNames :
                          call.ret[tier].models = <<>> /\ call.ret[tier].hidden = 0
                    /\ call.ret.totalShown = 0 /\ call.ret.totalHidden = 0
              /\ IsDefined(taskData) =>
                    \A tier \in TierNames \ DOMAIN Val(taskData) :
                        call.ret[tier].models = <<>> /\ call.ret[tier].hidden = 0
              /\ \A tier \in TierNames :
                    \A i \in DOMAIN call.ret[tier].models :
                        LET m == call.ret[tier].models[i]
                        IN  /\ call.args[3] # 0 => IsDefined(m.accuracy)
                            /\ IsDefined(call.args[4]) => IsDefined(m.deploymentOptions)
    /\ call.op = "getAvailableCategories" =>
          \A c \in DOMAIN call.ret :
              \A sc \in DOMAIN call.ret[c] :
                  /\ call.ret[c][sc] > 0
                  /\ getTaskModels(modelsData, c, sc) # <<>>

\* a filtered request over a catalog that lists no xlarge tier and whose only
\* model has neither accuracy nor deploymentOptions: the call returns, with the
\* model counted as hidden
C11_Witness ==
    /\ call.op = "getTaskModelsGroupedByTier"
    /\ call.args = <<"computer_vision", "image_classification", 85, Some("browser")>>
    /\ "xlarge" \notin DOMAIN modelsData.models["computer_vision"]["image_classification"]
    /\ LET ms == getTaskModels(modelsData, "computer_vision", "image_classification")
       IN  /\ Len(ms) = 1
           /\ ms[1].accuracy = Undefined
           /\ ms[1].deploymentOptions = Undefined
    /\ ~call.threw
    /\ call.ret.totalShown = 0
    /\ call.ret.totalHidden = 1

----------------------------------------------------------------------------
(* Properties: tier and size *)

\* ModelAggregator.determineTier: the tier of a size
determineTier(sizeMB) ==
    IF sizeMB <= 500 THEN "lightweight"
    ELSE IF sizeMB <= 4000 THEN "standard"
    ELSE IF sizeMB <= 20000 THEN "advanced"
    ELSE "xlarge"

\* C12: every model returned by selectModels, getTaskModels and
\* getTaskModelsGroupedByTier carries the tier derived from its sizeMB by the
\* thresholds (<= 500 lightweight, <= 4000 standard, <= 20000 advanced, else
\* xlarge).
C12_TierMatchesSize ==
    /\ call.op \in {"selectModels", "getTaskModels"} =>
          \A i \in DOMAIN call.ret :
              call.ret[i].tier = Some(determineTier(call.ret[i].sizeMB))
    /\ call.op = "getTaskModelsGroupedByTier" =>
          \A tier \in TierNames :
              \A i \in DOMAIN call.ret[tier].models :
                  call.ret[tier].models[i].tier =
                      Some(determineTier(call.ret[tier].models[i].sizeMB))

----------------------------------------------------------------------------
(* Properties: the catalog at runtime *)

\* what an operation returns for its arguments over a catalog
ResultOver(data, op, args) ==
    CASE op = "selectModels" -> selectModels(data, args[1], args[2], args[3])
      [] op = "getTaskModels" -> getTaskModels(data, args[1], args[2])
      [] op = "getTaskModelsGroupedByTier" ->
            getTaskModelsGroupedByTier(data, args[1], args[2], args[3], args[4])
      [] op = "getAvailableCategories" -> getAvailableCategories(data)

\* C13: the catalog is read-only at runtime. No ModelSelector call changes it:
\* every per-tier list holds the same records in the same order after the call
\* as before; and what a call returns is what its arguments give over the
\* catalog as it stands after the call, whatever calls came before.
C13_CatalogReadOnly ==
    [][/\ modelsData' = modelsData
       /\ call' # NoCall =>
             call'.ret = ResultOver(modelsData', call'.op, call'.args)]_vars

\* an unfiltered grouped request (the filters hand the tier's array through to
\* rankBySize) over a tier whose two models the catalog lists larger first:
\* the result has them smaller first, the catalog still larger first
C13_Witness ==
    /\ call.op = "getTaskModelsGroupedByTier"
    /\ call.args = <<"computer_vision", "image_classification", 0, Undefined>>
    /\ LET list == CatalogTier(modelsData, "computer_vision",
                               "image_classification", "standard")
       IN  /\ Len(list) = 2
           /\ list[1].sizeMB > list[2].sizeMB
           /\ call.ret["standard"].models[1].id = list[2].id
           /\ call.ret["standard"].models[2].id = list[1].id

----------------------------------------------------------------------------
(* Properties: getAvailableCategories *)

\* the (category, subcategory) pairs of a category -> subcategory -> count map
PairsOf(available) == PairsOfAvailable(available)

\* C14: getAvailableCategories maps each (category, subcategory) of the catalog
\* that has at least one model to the number of its models over the four
\* tiers, which is the number of models getTaskModels returns for the pair; a
\* subcategory without models is left out, and so is a category left with no
\* subcategory.
C14_AvailableCounts ==
    call.op = "getAvailableCategories" =>
        /\ \A c \in DOMAIN modelsData.models :
              \A sc \in DOMAIN modelsData.models[c] :
                  LET total == SumSeq([i \in TierIndexes |->
                                   Len(CatalogTier(modelsData, c, sc, TIERS[i]))])
                  IN  /\ total = Len(getTaskModels(modelsData, c, sc))
                      /\ total > 0 => /\ <<c, sc>> \in PairsOf(call.ret)
                                      /\ call.ret[c][sc] = total
                      /\ total = 0 => <<c, sc>> \notin PairsOf(call.ret)
        /\ \A c \in DOMAIN call.ret :
              /\ c \in DOMAIN modelsData.models
              /\ DOMAIN call.ret[c] # {}
              /\ DOMAIN call.ret[c] \subseteq DOMAIN modelsData.models[c]

\* a task with one lightweight and one advanced model, next to the category
\* whose only subcategory is an empty object: one category, one subcategory,
\* count 2
C14_Witness ==
    /\ call.op = "getAvailableCategories"
    /\ Len(CatalogTier(modelsData, "computer_vision", "image_classification", "lightweight")) = 1
    /\ Len(CatalogTier(modelsData, "computer_vision", "image_classification", "advanced")) = 1
    /\ "empty_cat" \in DOMAIN modelsData.models
    /\ DOMAIN call.ret = {"computer_vision"}
    /\ DOMAIN call.ret["computer_vision"] = {"image_classification"}
    /\ call.ret["computer_vision"]["image_classification"] = 2

----------------------------------------------------------------------------
(* Properties: the routing of classify requests *)

\* the progress states before ready, and the failed one
NotReadyStatuses == {"idle", "downloading", "loading", "computing", "error"}

\* C15: classify of the embedding classifier is never invoked before the
\* classifier has reached ready: every request that called it was made in the
\* ready state, and a request made while initialization was downloading,
\* loading or computing, or after it had failed, was served by the fallback
\* classifier.
C15_EmbeddingOnlyWhenReady ==
    /\ \A r \in pending : r.classifier = "embedding" /\ r.status = "ready"
    /\ \A i \in DOMAIN served :
          /\ served[i].classifier = "embedding" => served[i].status = "ready"
          /\ served[i].status \in NotReadyStatuses => served[i].classifier = "fallback"

\* one request during loading and one after the failure, both served by the
\* fallback classifier
C15_Witness ==
    /\ Len(served) = 2
    /\ served[1].status = "loading" /\ served[1].classifier = "fallback"
    /\ served[2].status = "error" /\ served[2].classifier = "fallback"
    /\ prefillCategory # Undefined

\* C16: once embedding initialization has ended in error (the error progress
\* state, an unsuccessful initialize result or a thrown error), it stays so;
\* in that state the branch of handleClassify leads to the fallback classifier
\* and no call of the embedding classifier is pending; and every classify
\* request made in that state is served by the fallback classifier and ends
\* with a result, not an error.
C16_FailedInitRoutesToFallback ==
    [][/\ initStatus = "error" => initStatus' = "error"
       /\ initStatus' = "error" => ~RoutesToEmbedding' /\ pending' = {}
       /\ initStatus = "error" /\ served' # served =>
             LET request == served'[Len(served')]
             IN  /\ Len(served') = Len(served) + 1
                 /\ request.classifier = "fallback"
                 /\ ~request.outcome.threw]_vars

\* initialize threw without reporting the error state (usingFallback was never
\* set), and two later requests were served by the fallback classifier
C16_Witness ==
    /\ mount = "failed"
    /\ ~usingFallback
    /\ error = Some(InitFailedMessage)
    /\ Len(served) = 2
    /\ \A i \in DOMAIN served :
          /\ served[i].status = "error"
          /\ served[i].classifier = "fallback"
          /\ ~served[i].outcome.threw

----------------------------------------------------------------------------
(* Properties: what the page does with a classifier's answer *)

\* the request that ends in a step, if one does
EndsNow(request) ==
    /\ Len(served') = Len(served) + 1
    /\ request = served'[Len(served')]

\* a result the policy does not accept: confidence below 0.70, or fewer than 3
\* of the top 5 votes agreeing with the winning label
LowConfidence(result) ==
    \/ IsDefined(result.confidence) /\ Val(result.confidence) < 70
    \/ IsDefined(result.agreeing) /\ Val(result.agreeing) < 3

\* C17: when the embedding classifier returns a result with confidence below
\* 0.70, or with fewer than 3 of the top 5 votes agreeing with the winning
\* label, the page does not accept the guessed label: it is not written to the
\* detected category and subcategory (the pre-fill the form applies).
C17_LowConfidenceNotAccepted ==
    [][\A request \in pending :
          LET ended == served'[Len(served')]
          IN  /\ EndsNow(ended)
              /\ ended.id = request.id
              /\ ~ended.outcome.threw
              /\ LowConfidence(Val(ended.outcome.result))
              => UNCHANGED <<prefillCategory, prefillSubcategory>>]_vars

\* the detected (category, subcategory, confidence) a result stands for
Detected(result) ==
    LET top == Val(TopPrediction(result))
    IN  <<top.category,
          IF Truthy(top.subcategory) THEN top.subcategory ELSE Undefined,
          IF IsDefined(result.confidence) THEN Val(result.confidence) ELSE 0>>

\* C18: a failure of the embedding classifier while it serves a classify
\* request is turned into a degraded but functional state: the request is
\* served by the fallback classifier instead of being dropped (the detected
\* label is then a result of the fallback classifier), and later requests are
\* routed to the fallback classifier.
C18_ClassifyFailureFallsBack ==
    [][\A request \in pending :
          LET ended == served'[Len(served')]
          IN  /\ EndsNow(ended)
              /\ ended.id = request.id
              /\ ended.outcome.threw
              => /\ ~RoutesToEmbedding'
                 /\ \E result \in FallbackResults :
                       <<prefillCategory', prefillSubcategory', prefillConfidence'>>
                           = Detected(result)]_vars

\* C19: overlapping classify requests do not interleave. When a request
\* started while an earlier one was still awaiting its classifier, and all
\* requests have ended, the detected (category, subcategory, confidence) is the
\* one of the request that started last, not a stale earlier result.
C19_LaterRequestWins ==
    pending = {} =>
        \A i \in DOMAIN served :
            /\ served[i].id = Started
            /\ served[i].during # {}
            /\ ~served[i].outcome.threw
            => <<prefillCategory, prefillSubcategory, prefillConfidence>>
                   = Detected(Val(served[i].outcome.result))

----------------------------------------------------------------------------
(* Properties: a pre-supplied category and subcategory *)

\* C20: a pre-supplied (category, subcategory), from the form's submit event or
\* from the category and task parameters of the URL, bypasses classification:
\* the step that handles it invokes neither classifier (no classify call starts
\* or ends, the detected label is untouched) and calls the ModelSelector with
\* exactly that pair, threshold 0 and the chosen deployment target, or null
\* when none is chosen; for the URL the pair and the target are the category,
\* task and deploy parameters.
C20_PreSuppliedBypassesClassification ==
    [][/\ submitted' # submitted =>
             LET detail == Val(submitted')
             IN  /\ call'.op = "getTaskModelsGroupedByTier"
                 /\ call'.args = <<detail.category, detail.subcategory, 0,
                                   detail.deploymentTarget>>
                 /\ call'.ret = getTaskModelsGroupedByTier(modelsData, detail.category,
                                    detail.subcategory, 0, detail.deploymentTarget)
                 /\ UNCHANGED <<pending, served, prefillVars>>
       /\ mount = "initializing" /\ mount' = "mounted"
             /\ Truthy(url.category) /\ Truthy(url.task) =>
             /\ call'.op = "getTaskModelsGroupedByTier"
             /\ call'.args = <<Val(url.category), Val(url.task), 0,
                               IF Truthy(url.deploy) THEN url.deploy ELSE Undefined>>
             /\ UNCHANGED <<pending, served, prefillVars>>]_vars

\* the form submitted for the browser while the classifier is still loading and
\* before any classify event: the selector was called with the pair and
\* 'browser', and the recommendations are shown
C20_Witness ==
    /\ mount = "initializing"
    /\ initStatus = "loading"
    /\ Started = 0
    /\ submitted = Some(Detail("computer_vision", "image_classification", Some("browser")))
    /\ call.op = "getTaskModelsGroupedByTier"
    /\ call.args = <<"computer_vision", "image_classification", 0, Some("browser")>>
    /\ Len(recommendations) = 1
    /\ prefillCategory = Undefined

----------------------------------------------------------------------------
(* The vote of the Embedding Classifier (spec 4.2, steps 3 to 6).  The      *)
(* encoder and the Similarity Engine are outside the model: the state holds  *)
(* what step 2 hands to the vote, the similarity of every reference entry to *)
(* the query, in hundredths.                                                 *)

\* K of the top-K selection
TopK == 5
\* the most reference entries of the store
MaxEntries == 6

\* the Similarity Engine returns a value in [-1, 1]
Similarities == {-20, 0, 60}

Labels ==
    { <<"computer_vision", "image_classification">>,
      <<"natural_language_processing", "sentiment_analysis">> }

FirstLabel == <<"computer_vision", "image_classification">>

ReferenceEntry(label, similarity) == [label |-> label, similarity |-> similarity]

\* the position of entry i after the stable sort by similarity, descending
SimilarityRank(entries, i) ==
    1 + Cardinality({ j \in DOMAIN entries :
                        \/ entries[j].similarity > entries[i].similarity
                        \/ /\ entries[j].similarity = entries[i].similarity
                           /\ j < i })

\* step 3: the K entries most similar to the query, all of them if fewer
SelectTopK(entries) ==
    LET n == IF Len(entries) < TopK THEN Len(entries) ELSE TopK
    IN  [r \in 1..n |-> entries[CHOOSE i \in DOMAIN entries : SimilarityRank(entries, i) = r]]

RECURSIVE SummedWeight(_, _)
\* step 4: the raw similarity of every vote for the label, added up
SummedWeight(votes, label) ==
    IF votes = <<>> THEN 0
    ELSE (IF Head(votes).label = label THEN Head(votes).similarity ELSE 0)
         + SummedWeight(Tail(votes), label)

RECURSIVE TotalWeight(_)
TotalWeight(votes) ==
    IF votes = <<>> THEN 0
    ELSE Head(votes).similarity + TotalWeight(Tail(votes))

\* step 4: the summed weight of every label voted for
VoteBreakdown(votes) ==
    [label \in {votes[i].label : i \in DOMAIN votes} |-> SummedWeight(votes, label)]

\* step 5: the label with the highest summed weight, the first voted of them
WinningLabel(votes, breakdown) ==
    LET best(i) == \A label \in DOMAIN breakdown : breakdown[label] <= breakdown[votes[i].label]
    IN  votes[CHOOSE i \in DOMAIN votes : best(i) /\ \A j \in 1..(i - 1) : ~best(j)].label

\* step 5: winning weight / total weight as a fraction; 0 / 0 is NaN, and a
\* fraction with total 0 stands for the infinite quotient
Confidence(weight, total) ==
    IF total = 0 /\ weight = 0
    THEN Undefined
    ELSE Some([weight |-> weight, total |-> total])

\* steps 5 and 6 over the selected votes and their breakdown
Verdict(votes, breakdown, winner) ==
    [category |-> winner[1],
     subcategory |-> winner[2],
     confidence |-> Confidence(breakdown[winner], TotalWeight(votes)),
     voteBreakdown |-> breakdown,
     votes |-> votes]

\* steps 3 to 6 of classify
classify(entries) ==
    LET votes == SelectTopK(entries)
        breakdown == VoteBreakdown(votes)
    IN  Verdict(votes, breakdown, WinningLabel(votes, breakdown))

\* the selector and the page as they stand while another component runs
SiteIdle ==
    /\ modelsData = Catalog(<<>>, FALSE)
    /\ models = <<>>
    /\ call = NoCall
    /\ PageDeclared

siteVars == <<modelsData, models, call, pageVars>>

\* the store after initialization, and the similarities of one query: the
\* examples are encoded label by label, in the order of the taxonomy
InitClassifier ==
    /\ \E n \in 1..MaxEntries :
         \E first \in 0..n, second \in Labels, similarity \in [1..n -> Similarities] :
            similarities = [i \in 1..n |->
                ReferenceEntry(IF i <= first THEN FirstLabel ELSE second, similarity[i])]
    /\ classification = Undefined
    /\ SiteIdle /\ ImpactIdle /\ AggregatorIdle

Classify ==
    /\ classification = Undefined
    /\ classification' = Some(classify(similarities))
    /\ UNCHANGED <<similarities, siteVars, impactVars, aggregatorVars>>

NextClassifier == Classify

SpecClassifier == InitClassifier /\ [][NextClassifier]_vars

\* all the selected votes name one label
Unanimous(votes) == \A i, j \in DOMAIN votes : votes[i].label = votes[j].label

\* weight / total lies in [0, 1]
InUnitInterval(fraction) ==
    /\ fraction.total # 0
    /\ IF fraction.total > 0
       THEN 0 <= fraction.weight /\ fraction.weight <= fraction.total
       ELSE fraction.total <= fraction.weight /\ fraction.weight <= 0

\* C21: for every query the confidence the Embedding Classifier returns lies
\* between 0 and 1, and it is 1 exactly when all the selected votes pick the
\* same label.
C21_ConfidenceInUnitInterval ==
    IsDefined(classification) =>
        LET result == Val(classification)
        IN  /\ IsDefined(result.confidence)
            /\ InUnitInterval(Val(result.confidence))
            /\ (Val(result.confidence).weight = Val(result.confidence).total)
                    <=> Unanimous(result.votes)

----------------------------------------------------------------------------
(* Size-based tier and environmental score: ModelAggregator.determineTier   *)
(* and calculateEnvironmentalScore, and EnvironmentalImpactCalculator        *)
(* (lib/environmental/EnvironmentalImpactCalculator.js).                     *)

\* maxMB of the last score tier: above every size of the model
Infinity == 1000000000

SCORE_TIERS ==
    << [maxMB |-> 500, score |-> 1, tier |-> "lightweight", label |-> "Low Impact"],
       [maxMB |-> 4000, score |-> 2, tier |-> "standard", label |-> "Medium Impact"],
       [maxMB |-> Infinity, score |-> 3, tier |-> "advanced", label |-> "High Impact"] >>

\* SCORE_TIERS.find(t => sizeMB <= t.maxMB)
getTier(sizeMB) ==
    SCORE_TIERS[CHOOSE i \in DOMAIN SCORE_TIERS :
                    /\ sizeMB <= SCORE_TIERS[i].maxMB
                    /\ \A j \in 1..(i - 1) : ~(sizeMB <= SCORE_TIERS[j].maxMB)]

\* model.sizeMB || 0, then the score tier of that size
calculateImpact(model) ==
    LET sizeMB == IF IsDefined(model.sizeMB) /\ Val(model.sizeMB) # 0
                  THEN Val(model.sizeMB) ELSE 0
        tier == getTier(sizeMB)
    IN  [environmentalScore |-> tier.score,
         sizeMB |-> sizeMB,
         scoreLabel |-> tier.label,
         tier |-> tier.tier]

\* calculateEnvironmentalScore with exclusive bounds
calculateEnvironmentalScoreExclusive(sizeMB) ==
    IF sizeMB < 500 THEN 1
    ELSE IF sizeMB < 4000 THEN 2
    ELSE 3

calculateEnvironmentalScore(sizeMB) ==
    IF sizeMB <= 500 THEN 1
    ELSE IF sizeMB <= 4000 THEN 2
    ELSE 3

\* sizes in MB on both sides of every threshold
ImpactSizes ==
    {0, 1, 20, 499, 500, 501, 2000, 3999, 4000, 4001, 19999, 20000, 20001, 50000}

InitImpact ==
    /\ \E sizeMB \in {Undefined} \cup {Some(size) : size \in ImpactSizes} :
            sizedModel = [sizeMB |-> sizeMB]
    /\ scored = [tier |-> Undefined, environmentalScore |-> Undefined, impact |-> Undefined]
    /\ SiteIdle /\ ClassifierIdle /\ AggregatorIdle

\* the aggregator calls determineTier with the size it estimated
DetermineTier ==
    /\ IsDefined(sizedModel.sizeMB)
    /\ scored.tier = Undefined
    /\ scored' = [scored EXCEPT !.tier = Some(determineTier(Val(sizedModel.sizeMB)))]
    /\ UNCHANGED <<sizedModel, siteVars, classifierVars, aggregatorVars>>

\* the aggregator calls calculateEnvironmentalScore with the size it estimated
CalculateEnvironmentalScore ==
    /\ IsDefined(sizedModel.sizeMB)
    /\ scored.environmentalScore = Undefined
    /\ scored' = [scored EXCEPT !.environmentalScore =
                        Some(calculateEnvironmentalScore(Val(sizedModel.sizeMB)))]
    /\ UNCHANGED <<sizedModel, siteVars, classifierVars, aggregatorVars>>

CalculateImpact ==
    /\ scored.impact = Undefined
    /\ scored' = [scored EXCEPT !.impact = Some(calculateImpact(sizedModel))]
    /\ UNCHANGED <<sizedModel, siteVars, classifierVars, aggregatorVars>>

NextImpact ==
    \/ DetermineTier
    \/ CalculateEnvironmentalScore
    \/ CalculateImpact

SpecImpact == InitImpact /\ [][NextImpact]_vars

\* C22: for every sizeMB the tier calculateImpact reports is the tier
\* determineTier gives: lightweight up to 500, standard up to 4000, advanced
\* up to 20000, xlarge above.
C22_ImpactTierIsSizeTier ==
    (IsDefined(scored.tier) /\ IsDefined(scored.impact))
        => Val(scored.impact).tier = Val(scored.tier)

\* the score the documentation gives a size: 1 up to 500 MB, 2 up to 4 GB, 3 above
DocumentedScore(sizeMB) ==
    IF sizeMB \in 0..500 THEN 1 ELSE IF sizeMB \in 501..4000 THEN 2 ELSE 3

\* C24: for every sizeMB calculateEnvironmentalScore and calculateImpact give
\* the same score, 1 up to 500, 2 up to 4000 and 3 above, and calculateImpact
\* scores a model without sizeMB as a model of size 0.
C24_ScoresAgree ==
    /\ (IsDefined(scored.environmentalScore) /\ IsDefined(scored.impact))
        => /\ Val(scored.environmentalScore) = Val(scored.impact).environmentalScore
           /\ Val(scored.environmentalScore) = DocumentedScore(Val(sizedModel.sizeMB))
    /\ (sizedModel.sizeMB = Undefined /\ IsDefined(scored.impact))
        => /\ Val(scored.impact).sizeMB = 0
           /\ Val(scored.impact).environmentalScore = DocumentedScore(0)

\* both functions have scored a model above 4000 MB, and another state shows
\* the impact of a model without sizeMB
C24_Witness ==
    /\ IsDefined(sizedModel.sizeMB)
    /\ Val(sizedModel.sizeMB) > 4000
    /\ IsDefined(scored.environmentalScore)
    /\ IsDefined(scored.impact)
    /\ Val(scored.environmentalScore) = 3

----------------------------------------------------------------------------
(* The ModelAggregator (lib/aggregation/ModelAggregator.js).  A string the  *)
(* aggregator inspects (a model id, a file name) is the sequence of its     *)
(* characters, a date is a day number, and accuracy is in thousandths as in  *)
(* the catalog.  The fields description and likes, which the aggregator      *)
(* writes and never reads, are left out of a model.                          *)

Lowercase ==
    <<"a", "b", "c", "d", "e", "f", "g", "h", "i", "j", "k", "l", "m",
      "n", "o", "p", "q", "r", "s", "t", "u", "v", "w", "x", "y", "z">>

Uppercase ==
    <<"A", "B", "C", "D", "E", "F", "G", "H", "I", "J", "K", "L", "M",
      "N", "O", "P", "Q", "R", "S", "T", "U", "V", "W", "X", "Y", "Z">>

Digits == <<"0", "1", "2", "3", "4", "5", "6", "7", "8", "9">>

\* the character of alphabet `to` at the place c has in alphabet `from`
Translate(c, from, to) ==
    IF c \in Range(from) THEN to[CHOOSE k \in DOMAIN from : from[k] = c] ELSE c

toLowerCase(string) == [i \in DOMAIN string |-> Translate(string[i], Uppercase, Lowercase)]

endsWith(string, suffix) ==
    /\ Len(suffix) <= Len(string)
    /\ SubSeq(string, Len(string) - Len(suffix) + 1, Len(string)) = suffix

includes(string, word) ==
    \E offset \in 0..(Len(string) - Len(word)) :
        SubSeq(string, offset + 1, offset + Len(word)) = word

\* RegExp.test for a pattern of character classes, anchored or not at each end
test(pattern, string) ==
    \E offset \in 0..(Len(string) - Len(pattern.body)) :
        /\ pattern.start => offset = 0
        /\ pattern.end => offset + Len(pattern.body) = Len(string)
        /\ \A k \in DOMAIN pattern.body : string[offset + k] \in pattern.body[k]

excludePatterns ==
    <<
       [start |-> TRUE, end |-> FALSE, body |-> <<{"t"}, {"r"}, {"l"}, {"-"}, {"i"}, {"n"}, {"t"}, {"e"}, {"r"}, {"n"}, {"a"}, {"l"}, {"-"}, {"t"}, {"e"}, {"s"}, {"t"}, {"i"}, {"n"}, {"g"}, {"/"}>>],
       [start |-> TRUE, end |-> FALSE, body |-> <<{"h"}, {"f"}, {"-"}, {"i"}, {"n"}, {"t"}, {"e"}, {"r"}, {"n"}, {"a"}, {"l"}, {"-"}, {"t"}, {"e"}, {"s"}, {"t"}, {"i"}, {"n"}, {"g"}, {"/"}>>],
       [start |-> TRUE, end |-> FALSE, body |-> <<{"t"}, {"e"}, {"s"}, {"t"}, {"-"}>>],
       [start |-> TRUE, end |-> FALSE, body |-> <<{"t"}, {"e"}, {"s"}, {"t"}, {"i"}, {"n"}, {"g"}, {"-"}>>],
       [start |-> FALSE, end |-> TRUE, body |-> <<{"-"}, {"t"}, {"e"}, {"s"}, {"t"}>>],
       [start |-> FALSE, end |-> TRUE, body |-> <<{"-"}, {"t"}, {"e"}, {"s"}, {"t"}, {"i"}, {"n"}, {"g"}>>],
       [start |-> TRUE, end |-> FALSE, body |-> <<{"d"}, {"u"}, {"m"}, {"m"}, {"y"}, {"-", "_"}>>],
       [start |-> FALSE, end |-> TRUE, body |-> <<{"-", "_"}, {"d"}, {"u"}, {"m"}, {"m"}, {"y"}>>],
       [start |-> TRUE, end |-> FALSE, body |-> <<{"m"}, {"o"}, {"c"}, {"k"}, {"-", "_"}>>],
       [start |-> FALSE, end |-> TRUE, body |-> <<{"-", "_"}, {"m"}, {"o"}, {"c"}, {"k"}>>],
       [start |-> TRUE, end |-> FALSE, body |-> <<{"f"}, {"a"}, {"k"}, {"e"}, {"-", "_"}>>],
       [start |-> FALSE, end |-> TRUE, body |-> <<{"-", "_"}, {"f"}, {"a"}, {"k"}, {"e"}>>],
       [start |-> TRUE, end |-> FALSE, body |-> <<{"p"}, {"l"}, {"a"}, {"c"}, {"e"}, {"h"}, {"o"}, {"l"}, {"d"}, {"e"}, {"r"}>>],
       [start |-> TRUE, end |-> FALSE, body |-> <<{"e"}, {"x"}, {"a"}, {"m"}, {"p"}, {"l"}, {"e"}, {"-", "_"}>>],
       [start |-> TRUE, end |-> FALSE, body |-> <<{"s"}, {"a"}, {"m"}, {"p"}, {"l"}, {"e"}, {"-", "_"}>>],
       [start |-> TRUE, end |-> FALSE, body |-> <<{"d"}, {"e"}, {"m"}, {"o"}, {"-", "_"}>>],
       [start |-> FALSE, end |-> FALSE, body |-> <<{"i"}, {"n"}, {"t"}, {"e"}, {"r"}, {"n"}, {"a"}, {"l"}, {"-", "_"}, {"t"}, {"e"}, {"s"}, {"t"}>>],
       [start |-> FALSE, end |-> FALSE, body |-> <<{"t"}, {"e"}, {"s"}, {"t"}, {"-", "_"}, {"m"}, {"o"}, {"d"}, {"e"}, {"l"}>>],
       [start |-> FALSE, end |-> FALSE, body |-> <<{"t"}, {"i"}, {"n"}, {"y"}, {"-", "_"}, {"r"}, {"a"}, {"n"}, {"d"}, {"o"}, {"m"}>>],
       [start |-> FALSE, end |-> FALSE, body |-> <<{"r"}, {"a"}, {"n"}, {"d"}, {"o"}, {"m"}, {"-", "_"}, {"t"}, {"i"}, {"n"}, {"y"}>>],
       [start |-> TRUE, end |-> FALSE, body |-> <<{"d"}, {"e"}, {"b"}, {"u"}, {"g"}, {"-", "_"}>>],
       [start |-> FALSE, end |-> TRUE, body |-> <<{"-", "_"}, {"d"}, {"e"}, {"b"}, {"u"}, {"g"}>>],
       [start |-> TRUE, end |-> FALSE, body |-> <<{"d"}, {"e"}, {"v"}, {"-", "_"}>>],
       [start |-> FALSE, end |-> FALSE, body |-> <<{"-", "_"}, {"c"}, {"i"}, {"-", "_"}, {"t"}, {"e"}, {"s"}, {"t"}>>],
       [start |-> FALSE, end |-> FALSE, body |-> <<{"-", "_"}, {"u"}, {"n"}, {"i"}, {"t"}, {"t"}, {"e"}, {"s"}, {"t"}>>],
       [start |-> TRUE, end |-> FALSE, body |-> <<{"s"}, {"s"}, {"h"}, {"l"}, {"e"}, {"i"}, {"f"}, {"e"}, {"r"}, {"/"}, {"t"}, {"i"}, {"n"}, {"y"}>>],
       [start |-> TRUE, end |-> FALSE, body |-> <<{"p"}, {"a"}, {"t"}, {"r"}, {"i"}, {"c"}, {"k"}, {"v"}, {"o"}, {"n"}, {"p"}, {"l"}, {"a"}, {"t"}, {"e"}, {"n"}, {"/"}, {"t"}, {"i"}, {"n"}, {"y"}>>],
       [start |-> TRUE, end |-> FALSE, body |-> <<{"f"}, {"x"}, {"m"}, {"a"}, {"r"}, {"t"}, {"y"}, {"/"}, {"t"}, {"i"}, {"n"}, {"y"}>>],
       [start |-> TRUE, end |-> FALSE, body |-> <<{"h"}, {"f"}, {"-"}, {"t"}, {"i"}, {"n"}, {"y"}>>]
    >>

isExcludedModel(modelId) ==
    \E k \in DOMAIN excludePatterns : test(excludePatterns[k], toLowerCase(modelId))

\* the number of digits of string that start at position i
DigitRun(string, i) ==
    CHOOSE n \in 0..Len(string) :
        /\ \A k \in i..(i + n - 1) : k <= Len(string) /\ string[k] \in Range(Digits)
        /\ ~(i + n <= Len(string) /\ string[i + n] \in Range(Digits))

RECURSIVE DigitsValue(_)
\* the number a run of digits writes
DigitsValue(digits) ==
    IF digits = <<>> THEN 0
    ELSE 10 * DigitsValue(SubSeq(digits, 1, Len(digits) - 1))
         + (CHOOSE k \in DOMAIN Digits : Digits[k] = digits[Len(digits)]) - 1

RECURSIVE PowerOfTen(_)
PowerOfTen(n) == IF n = 0 THEN 1 ELSE 10 * PowerOfTen(n - 1)

\* modelName.match(/(\d+\.?\d*)b(?:-|_|$)/) at position i: the digits before
\* and after the point when it matches there, nothing when it does not
MatchParamsAt(modelName, i) ==
    LET whole == DigitRun(modelName, i)
        point == i + whole <= Len(modelName) /\ modelName[i + whole] = "."
        fraction == IF point THEN DigitRun(modelName, i + whole + 1) ELSE 0
        b == i + whole + (IF point THEN 1 ELSE 0) + fraction
    IN  IF /\ whole >= 1
           /\ b <= Len(modelName)
           /\ modelName[b] = "b"
           /\ (b = Len(modelName) \/ modelName[b + 1] \in {"-", "_"})
        THEN Some([whole |-> SubSeq(modelName, i, i + whole - 1),
                   fraction |-> SubSeq(modelName, i + whole + 1, i + whole + fraction)])
        ELSE Undefined

\* the leftmost match of the parameter count in the name
paramMatch(modelName) ==
    IF \E i \in DOMAIN modelName : IsDefined(MatchParamsAt(modelName, i))
    THEN MatchParamsAt(modelName,
            CHOOSE i \in DOMAIN modelName :
                /\ IsDefined(MatchParamsAt(modelName, i))
                /\ \A j \in 1..(i - 1) : ~IsDefined(MatchParamsAt(modelName, j)))
    ELSE Undefined

RECURSIVE TotalBytes(_)
\* modelFiles.reduce((sum, f) => sum + (f.size || 0), 0)
TotalBytes(modelFiles) ==
    IF modelFiles = <<>> THEN 0
    ELSE (IF IsDefined(Head(modelFiles).size) THEN Val(Head(modelFiles).size) ELSE 0)
         + TotalBytes(Tail(modelFiles))

\* step 5 of estimateModelSize: the size a word of the name stands for
SizeByName(modelName) ==
    IF includes(modelName, <<"n", "a", "n", "o">>) \/ includes(modelName, <<"t", "i", "n", "y">>) THEN 50
    ELSE IF includes(modelName, <<"s", "m", "a", "l", "l">>) \/ includes(modelName, <<"m", "o", "b", "i", "l", "e">>) THEN 150
    ELSE IF includes(modelName, <<"b", "a", "s", "e">>) /\ ~includes(modelName, <<"l", "a", "r", "g", "e">>) THEN 400
    ELSE IF includes(modelName, <<"m", "e", "d", "i", "u", "m">>) THEN 800
    ELSE IF includes(modelName, <<"l", "a", "r", "g", "e">>) \/ includes(modelName, <<"x", "l">>) THEN 1500
    ELSE IF includes(modelName, <<"x", "x", "l">>) \/ includes(modelName, <<"h", "u", "g", "e">>) THEN 5000
    ELSE 200

\* sizes are in bytes, parameter counts in parameters; Math.round(x / 2^20)
\* is (x + 2^19) \div 2^20, and Math.round(2 * x / 2^20) is (x + 2^18) \div 2^19
estimateModelSize(rawModel, detailedInfo) ==
    LET info == IF IsDefined(detailedInfo) THEN Val(detailedInfo)
                ELSE [siblings |-> Undefined, safetensors |-> Undefined]
        \* the files of siblings that hold weights
        weights(siblings) ==
            SelectSeq(siblings, LAMBDA f :
                \/ endsWith(f.rfilename, <<".", "s", "a", "f", "e", "t", "e", "n", "s", "o", "r", "s">>)
                \/ endsWith(f.rfilename, <<".", "b", "i", "n">>)
                \/ endsWith(f.rfilename, <<".", "o", "n", "n", "x">>))
        modelFiles == IF IsDefined(info.siblings) THEN weights(Val(info.siblings)) ELSE <<>>
        \* safetensors.total and safetensors.parameters.total
        safetensors == IF IsDefined(info.safetensors) THEN Val(info.safetensors)
                       ELSE [total |-> Undefined, parameters |-> Undefined]
        given(params) == IsDefined(params) /\ Val(params) # 0
        modelName == toLowerCase(rawModel.id)
        \* Math.round(parseFloat(match) * 2000)
        billionsToMB(match) ==
            LET scale == PowerOfTen(Len(match.fraction))
                scaled == DigitsValue(match.whole) * scale + DigitsValue(match.fraction)
            IN  (2 * scaled * 2000 + scale) \div (2 * scale)
    IN  IF modelFiles # <<>> /\ TotalBytes(modelFiles) > 0
        THEN (TotalBytes(modelFiles) + 524288) \div 1048576
        ELSE IF given(safetensors.total)
        THEN (Val(safetensors.total) + 262144) \div 524288
        ELSE IF given(safetensors.parameters)
        THEN (Val(safetensors.parameters) + 262144) \div 524288
        ELSE IF IsDefined(paramMatch(modelName))
        THEN billionsToMB(Val(paramMatch(modelName)))
        ELSE SizeByName(modelName)

extractAccuracy(rawModel) ==
    LET modelName == toLowerCase(rawModel.id)
    IN  IF includes(modelName, <<"l", "a", "r", "g", "e">>) THEN 850
        ELSE IF includes(modelName, <<"b", "a", "s", "e">>) THEN 780
        ELSE IF includes(modelName, <<"s", "m", "a", "l", "l">>) \/ includes(modelName, <<"m", "o", "b", "i", "l", "e">>) THEN 720
        ELSE 750

\* Set.add on a set kept in insertion order
Add(array, items) ==
    array \o SelectSeq(items, LAMBDA x : x \notin Range(array))

extractFrameworks(rawModel, detailedInfo) ==
    LET \* modelId.split('/')[0]
        org(modelId) ==
            IF "/" \in Range(modelId)
            THEN SubSeq(modelId, 1, (CHOOSE i \in DOMAIN modelId :
                            modelId[i] = "/" /\ \A j \in 1..(i - 1) : modelId[j] # "/") - 1)
            ELSE modelId
        lib == IF IsDefined(detailedInfo) THEN Val(detailedInfo).library_name ELSE Undefined
        byLibrary ==
            IF lib = Some("transformers") THEN <<"PyTorch", "TensorFlow">>
            ELSE IF lib = Some("pytorch") THEN <<"PyTorch">>
            ELSE IF lib \in {Some("tensorflow"), Some("keras")} THEN <<"TensorFlow">>
            ELSE IF lib = Some("transformers.js") THEN <<"Transformers.js">>
            ELSE IF lib = Some("onnx") THEN <<"ONNX">>
            ELSE <<>>
        hasOnnx ==
            /\ IsDefined(detailedInfo)
            /\ IsDefined(Val(detailedInfo).siblings)
            /\ \E f \in Range(Val(Val(detailedInfo).siblings)) : endsWith(f.rfilename, <<".", "o", "n", "n", "x">>)
        bySiblings == Add(byLibrary, IF hasOnnx THEN <<"ONNX", "Transformers.js">> ELSE <<>>)
        tags == IF IsDefined(detailedInfo) /\ IsDefined(Val(detailedInfo).tags)
                THEN Val(Val(detailedInfo).tags)
                ELSE IF IsDefined(rawModel.tags) THEN Val(rawModel.tags) ELSE {}
        byTags == Add(Add(bySiblings, IF "transformers.js" \in tags THEN <<"Transformers.js">> ELSE <<>>),
                      IF "onnx" \in tags THEN <<"ONNX">> ELSE <<>>)
        byOrg == Add(byTags,
                     IF toLowerCase(org(rawModel.id)) \in {<<"x", "e", "n", "o", "v", "a">>, <<"o", "n", "n", "x", "-", "c", "o", "m", "m", "u", "n", "i", "t", "y">>}
                     THEN <<"ONNX", "Transformers.js">> ELSE <<>>)
    IN  IF byOrg = <<>>
        THEN <<"PyTorch">> \o (IF includes(rawModel.id, <<"t", "e", "n", "s", "o", "r", "f", "l", "o", "w">>) THEN <<"TensorFlow">> ELSE <<>>)
        ELSE byOrg

determineDeploymentOptions(sizeMB, frameworks) ==
    LET hasBrowserRuntime == Range(frameworks) \cap {"ONNX", "Transformers.js", "TensorFlow.js"} # {}
    IN  (IF hasBrowserRuntime /\ sizeMB <= 500 THEN <<"browser">> ELSE <<>>)
        \o (IF hasBrowserRuntime /\ sizeMB <= 100 THEN <<"mobile">> ELSE <<>>)
        \o (IF sizeMB <= 500 THEN <<"edge">> ELSE <<>>)
        \o (IF sizeMB <= 4000 THEN <<"cloud", "server">> ELSE <<"server">>)

\* rawModel.id.replace(/[\/\\]/g, '_').toLowerCase()
generateModelId(rawModel) ==
    toLowerCase([i \in DOMAIN rawModel.id |->
                    IF rawModel.id[i] \in {"/", "\\"} THEN "_" ELSE rawModel.id[i]])

\* the last part of the id, - and _ turned into spaces, every word capitalised
extractModelName(rawModel) ==
    LET id == rawModel.id
        last == IF "/" \in Range(id)
                THEN SubSeq(id, 1 + (CHOOSE i \in DOMAIN id :
                            id[i] = "/" /\ \A j \in (i + 1)..Len(id) : id[j] # "/"), Len(id))
                ELSE id
        spaced == [i \in DOMAIN last |-> IF last[i] \in {"-", "_"} THEN " " ELSE last[i]]
        word(c) == c \in Range(Lowercase) \cup Range(Uppercase) \cup Range(Digits) \cup {"_"}
    IN  [i \in DOMAIN spaced |->
            IF i = 1 \/ ~word(spaced[i - 1])
            THEN Translate(spaced[i], Lowercase, Uppercase)
            ELSE spaced[i]]

\* today: new Date().toISOString().split('T')[0] when the run takes place
extractModelMetadata(rawModel, detailedInfo, today) ==
    LET sizeMB == estimateModelSize(rawModel, detailedInfo)
        frameworks == extractFrameworks(rawModel, detailedInfo)
    IN  [id |-> generateModelId(rawModel),
         name |-> extractModelName(rawModel),
         huggingFaceId |-> rawModel.id,
         sizeMB |-> sizeMB,
         accuracy |-> extractAccuracy(rawModel),
         environmentalScore |-> calculateEnvironmentalScore(sizeMB),
         deploymentOptions |-> determineDeploymentOptions(sizeMB, frameworks),
         frameworks |-> frameworks,
         lastUpdated |-> IF IsDefined(rawModel.lastModified)
                         THEN Val(rawModel.lastModified) ELSE today,
         specialization |-> Undefined,
         category |-> rawModel.sourceCategory,
         subcategory |-> rawModel.sourceSubcategory,
         tier |-> determineTier(sizeMB),
         downloads |-> rawModel.downloads]

\* every required field is set: extractModelMetadata gives each a string or a
\* number (0 and the empty string included), never undefined or null
validateModelData(model) ==
    \A field \in {"id", "name", "huggingFaceId", "sizeMB", "environmentalScore"} :
        field \in DOMAIN model

\* a fetched model with the detailed info getDetailedModelInfo found for it
HubEntry(rawModel, detailedInfo) == [raw |-> rawModel, detailedInfo |-> detailedInfo]

RECURSIVE processModels(_, _)
processModels(rawModels, today) ==
    IF rawModels = <<>> THEN <<>>
    ELSE LET rawModel == Head(rawModels).raw
             skipped == \/ rawModel.id = <<>>
                        \/ rawModel.downloads = 0
                        \/ isExcludedModel(rawModel.id)
             processedModel ==
                extractModelMetadata(rawModel, Head(rawModels).detailedInfo, today)
         IN  (IF ~skipped /\ validateModelData(processedModel)
              THEN <<processedModel>> ELSE <<>>)
             \o processModels(Tail(rawModels), today)

\* the comparator of sortModelsByRelevance: curated first, then accuracy
\* (more than 0.05 apart), then size (more than 50 MB apart), then downloads
Relevance(a, b) ==
    LET curated(m) == IF Truthy(m.specialization) THEN 1 ELSE 0
        downloads(m) == IF "downloads" \in DOMAIN m THEN m.downloads ELSE 0
        abs(x) == IF x < 0 THEN 0 - x ELSE x
    IN  IF curated(a) # curated(b) THEN curated(b) - curated(a)
        ELSE IF abs(b.accuracy - a.accuracy) > 50 THEN b.accuracy - a.accuracy
        ELSE IF abs(a.sizeMB - b.sizeMB) > 50 THEN a.sizeMB - b.sizeMB
        ELSE downloads(b) - downloads(a)

RECURSIVE InsertByRelevance(_, _)
InsertByRelevance(sorted, model) ==
    IF sorted # <<>> /\ Relevance(sorted[Len(sorted)], model) > 0
    THEN Append(InsertByRelevance(SubSeq(sorted, 1, Len(sorted) - 1), model),
                sorted[Len(sorted)])
    ELSE Append(sorted, model)

RECURSIVE sortModelsByRelevance(_)
\* Array.prototype.sort is stable; on the values of the model Relevance is a
\* consistent order, for which every conforming sort gives this result
sortModelsByRelevance(array) ==
    IF array = <<>> THEN <<>>
    ELSE InsertByRelevance(sortModelsByRelevance(SubSeq(array, 1, Len(array) - 1)),
                           array[Len(array)])

\* the (category, subcategory) keys of the structure organizeIntoTiers fills:
\* the model keeps two of the nine
TieredPaths ==
    { <<"computer_vision", "image_classification">>,
      <<"natural_language_processing", "text_generation">> }

organizeIntoTiers(processedModels) ==
    LET cleanModel(model) ==
            [field \in DOMAIN model \ {"category", "subcategory", "tier", "downloads"} |->
                model[field]]
        placed(path, tier) ==
            SelectSeq(processedModels, LAMBDA model :
                <<model.category, model.subcategory>> = path /\ model.tier = tier)
    IN  [path \in TieredPaths |->
            [tier \in {"lightweight", "standard", "advanced", "xlarge"} |->
                sortModelsByRelevance(
                    [i \in DOMAIN placed(path, tier) |-> cleanModel(placed(path, tier)[i])])]]

\* the first model of every huggingFaceId
deduplicateModels(array) ==
    LET first(i) == \A j \in 1..(i - 1) : array[j].huggingFaceId # array[i].huggingFaceId
        RECURSIVE Firsts(_)
        Firsts(n) == IF n = 0 THEN <<>>
                   ELSE Firsts(n - 1) \o (IF first(n) THEN <<array[n]>> ELSE <<>>)
    IN  Firsts(Len(array))

preserveCuratedFields(newModel, existingModels) ==
    LET found == {i \in DOMAIN existingModels :
                    existingModels[i].huggingFaceId = newModel.huggingFaceId}
        existing == existingModels[CHOOSE i \in found : \A j \in found : i <= j]
    IN  IF found # {} /\ Truthy(existing.specialization) /\ ~Truthy(newModel.specialization)
        THEN [newModel EXCEPT !.specialization = existing.specialization]
        ELSE newModel

\* JSON.stringify of the two lists, model by model, without lastUpdated
hasModelListChanged(oldModels, newModels) ==
    LET withoutTimestamp(model) ==
            [field \in DOMAIN model \ {"lastUpdated"} |-> model[field]]
    IN  \/ Len(oldModels) # Len(newModels)
        \/ \E i \in DOMAIN oldModels :
                withoutTimestamp(oldModels[i]) # withoutTimestamp(newModels[i])

\* merged.models[category][subcategory][tier] || []
ExistingTier(currentModels, path, tier) ==
    IF path \in DOMAIN currentModels.models /\ tier \in DOMAIN currentModels.models[path]
    THEN currentModels.models[path][tier]
    ELSE <<>>

\* the body of the loop over the tiers: existing + new, deduplicated, sorted,
\* at most 5
MergeTier(existing, fetched) ==
    LET withCuratedFields == [i \in DOMAIN fetched |-> preserveCuratedFields(fetched[i], existing)]
        sorted == sortModelsByRelevance(deduplicateModels(existing \o withCuratedFields))
    IN  SubSeq(sorted, 1, IF Len(sorted) < 5 THEN Len(sorted) ELSE 5)

\* the merged dataset and stats.hasSubstantiveChanges; the reporting counters
\* (processed, added, updated, errors) are left out
mergeWithExistingData(currentModels, newTieredModels, today) ==
    LET fetched(path, tier) ==
            path \in DOMAIN newTieredModels /\ newTieredModels[path][tier] # <<>>
        final(path, tier) ==
            MergeTier(ExistingTier(currentModels, path, tier), newTieredModels[path][tier])
        hasSubstantiveChanges ==
            \E path \in DOMAIN newTieredModels : \E tier \in DOMAIN newTieredModels[path] :
                /\ fetched(path, tier)
                /\ hasModelListChanged(ExistingTier(currentModels, path, tier), final(path, tier))
        tiers(path) ==
            (IF path \in DOMAIN currentModels.models
             THEN DOMAIN currentModels.models[path] ELSE {})
            \cup {tier \in {"lightweight", "standard", "advanced", "xlarge"} : fetched(path, tier)}
    IN  [hasSubstantiveChanges |-> hasSubstantiveChanges,
         data |->
            [lastUpdated |->
                IF hasSubstantiveChanges \/ ~IsDefined(currentModels.lastUpdated)
                THEN Some(today) ELSE currentModels.lastUpdated,
             models |->
                [path \in DOMAIN currentModels.models \cup DOMAIN newTieredModels |->
                    [tier \in tiers(path) |->
                        IF fetched(path, tier) THEN final(path, tier)
                        ELSE currentModels.models[path][tier]]]]]

\* ShouldSave without a look at the dry run
ShouldSaveWhenChanged(dryRun, hasSubstantiveChanges) == hasSubstantiveChanges

\* step 5 of aggregateModels: saveModelsData is called
ShouldSave(dryRun, hasSubstantiveChanges) == ~dryRun /\ hasSubstantiveChanges

\* what aggregateModels returns, and whether it called saveModelsData
aggregateModels(currentModels, options, hfModels, today) ==
    LET dryRun == options.dryRun = Some(TRUE)
        merged == mergeWithExistingData(currentModels,
                        organizeIntoTiers(processModels(hfModels, today)), today)
    IN  [returned |-> [success |-> TRUE,
                       stats |-> [hasSubstantiveChanges |-> merged.hasSubstantiveChanges],
                       data |-> merged.data],
         saved |-> ShouldSave(dryRun, merged.hasSubstantiveChanges)]

RawModel(id, downloads, path) ==
    [id |-> id, downloads |-> downloads, lastModified |-> Some(1), tags |-> Undefined,
     sourceCategory |-> path[1], sourceSubcategory |-> path[2]]

DetailedInfo(siblings, safetensorsTotal, library_name) ==
    Some([siblings |-> siblings,
          safetensors |-> IF IsDefined(safetensorsTotal)
                          THEN Some([total |-> safetensorsTotal, parameters |-> Undefined])
                          ELSE Undefined,
          library_name |-> library_name,
          tags |-> Undefined])

\* models of the Hub already in the dataset: 334 MB of weights, and a name
\* that stands for 50 MB
KnownHubModels ==
    << HubEntry(RawModel(<<"a", "/", "v", "i", "t", "-", "b", "a", "s", "e">>, 900, <<"computer_vision", "image_classification">>),
                DetailedInfo(Some(<<[rfilename |-> <<"m", "o", "d", "e", "l", ".", "s", "a", "f", "e", "t", "e", "n", "s", "o", "r", "s">>, size |-> Some(350000000)],
                                    [rfilename |-> <<"R", "E", "A", "D", "M", "E", ".", "m", "d">>, size |-> Some(2000)]>>),
                             Undefined, Some("transformers"))),
       HubEntry(RawModel(<<"a", "/", "t", "i", "n", "y">>, 50, <<"computer_vision", "image_classification">>),
                Undefined) >>

\* what the Hub may return besides: an ONNX file of 1000 bytes, a parameter
\* count in the name, a parameter count in safetensors under a category the
\* aggregator has no tiers for, a test model, a model without downloads
NewHubModels ==
    << HubEntry(RawModel(<<"X", "e", "n", "o", "v", "a", "/", "s">>, 10, <<"computer_vision", "image_classification">>),
                DetailedInfo(Some(<<[rfilename |-> <<"m", ".", "o", "n", "n", "x">>, size |-> Some(1000)]>>),
                             Undefined, Undefined)),
       HubEntry(RawModel(<<"a", "/", "m", "-", "7", "b">>, 70, <<"natural_language_processing", "text_generation">>),
                DetailedInfo(Undefined, Undefined, Undefined)),
       HubEntry(RawModel(<<"a", "/", "p">>, 30, <<"audio", "audio_classification">>),
                DetailedInfo(Some(<<>>), Some(1000000000), Some("pytorch"))),
       HubEntry(RawModel(<<"t", "e", "s", "t", "-", "m">>, 20, <<"computer_vision", "image_classification">>),
                Undefined),
       HubEntry(RawModel(<<"a", "/", "q">>, 0, <<"computer_vision", "image_classification">>),
                Undefined) >>

\* what fetchHuggingFaceModels returns: at most one of the known models, then
\* at most one of the others
Fetches ==
    {known \o new : known \in {<<>>} \cup {<<m>> : m \in Range(KnownHubModels)},
                    new \in {<<>>} \cup {<<m>> : m \in Range(NewHubModels)}}

\* the most runs of the update script
MaxRuns == 1

\* the day of the next run: the dataset dates from day 1, the script runs daily
Today == runs + 2

\* models.json as earlier runs left it, or without any model
InitAggregator ==
    /\ \E earlier \in {<<>>, <<KnownHubModels[1]>>, <<KnownHubModels[2]>>, KnownHubModels} :
        \E tiered \in {organizeIntoTiers(processModels(earlier, 1)), <<>>} :
            modelsJson = [lastUpdated |-> Some(1), models |-> tiered]
    /\ aggregation = Undefined
    /\ writes = 0
    /\ runs = 0
    /\ SiteIdle /\ ClassifierIdle /\ ImpactIdle

\* a run of the update script: new ModelAggregator(), which loads models.json,
\* then aggregateModels(options)
AggregateModels ==
    /\ runs < MaxRuns
    /\ \E dryRun \in {Undefined, Some(TRUE)}, hfModels \in Fetches :
        \E result \in {aggregateModels(modelsJson, [dryRun |-> dryRun], hfModels, Today)} :
            /\ aggregation' = Some([options |-> [dryRun |-> dryRun],
                                    hfModels |-> hfModels,
                                    returned |-> result.returned])
            \* saveModelsData(mergedData)
            /\ modelsJson' = IF result.saved THEN result.returned.data ELSE modelsJson
            /\ writes' = IF result.saved THEN writes + 1 ELSE writes
    /\ runs' = runs + 1
    /\ UNCHANGED <<siteVars, classifierVars, impactVars>>

\* a maintainer adds a specialization tag to a model of models.json
Curate ==
    /\ \E path \in DOMAIN modelsJson.models :
        \E tier \in DOMAIN modelsJson.models[path] :
            \E i \in DOMAIN modelsJson.models[path][tier] :
                /\ ~Truthy(modelsJson.models[path][tier][i].specialization)
                /\ modelsJson' = [modelsJson EXCEPT
                        !.models[path][tier][i].specialization = Some("task:tables")]
    /\ UNCHANGED <<aggregation, writes, runs, siteVars, classifierVars, impactVars>>

NextAggregator ==
    \/ AggregateModels
    \/ Curate

SpecAggregator == InitAggregator /\ [][NextAggregator]_vars

\* the step is a run of the update script
IsRun == runs' = runs + 1

\* C23: with dryRun set aggregateModels never writes models.json, whatever it
\* fetched; without dryRun it writes models.json exactly when the merge
\* detected a substantive change, and what it writes is the merged data.
C23_DryRunIsPreviewOnly ==
    [][IsRun =>
        LET run == Val(aggregation')
            dryRun == run.options.dryRun = Some(TRUE)
            written == writes' # writes
        IN  /\ dryRun => ~written
            /\ ~dryRun => (written <=> run.returned.stats.hasSubstantiveChanges)
            /\ written => modelsJson' = run.returned.data
            /\ ~written => modelsJson' = modelsJson]_vars

\* a dry run that detected a substantive change has left models.json unwritten
C23_Witness ==
    /\ IsDefined(aggregation)
    /\ Val(aggregation).options.dryRun = Some(TRUE)
    /\ Val(aggregation).returned.stats.hasSubstantiveChanges
    /\ Val(aggregation).returned.data # modelsJson
    /\ writes = 0

\* every fetched model placed in the tier is already in that tier of the dataset
NothingNew(currentModels, newTieredModels, path, tier) ==
    \A i \in DOMAIN newTieredModels[path][tier] :
        \E j \in DOMAIN ExistingTier(currentModels, path, tier) :
            ExistingTier(currentModels, path, tier)[j].huggingFaceId
                = newTieredModels[path][tier][i].huggingFaceId

\* C25: when every fetched model of a tier already exists in that tier of the
\* current dataset, the merge leaves the tier's list as it was, same models in
\* the same order; when this is so of every tier, the merge reports no
\* substantive change, lastUpdated is preserved and no file is written.
C25_MergeNoOpWhenNothingNew ==
    [][IsRun =>
        \A run \in aggregation' :
        \A new \in {organizeIntoTiers(processModels(run.hfModels, Today))} :
            /\ \A path \in DOMAIN new : \A tier \in DOMAIN new[path] :
                NothingNew(modelsJson, new, path, tier)
                    => ExistingTier(run.returned.data, path, tier)
                            = ExistingTier(modelsJson, path, tier)
            /\ (\A path \in DOMAIN new : \A tier \in DOMAIN new[path] :
                    NothingNew(modelsJson, new, path, tier))
                    => /\ ~run.returned.stats.hasSubstantiveChanges
                       /\ run.returned.data.lastUpdated = modelsJson.lastUpdated
                       /\ writes' = writes]_vars

\* the models of a dataset
ModelsOf(data) ==
    UNION {UNION {Range(data.models[path][tier]) : tier \in DOMAIN data.models[path]} :
                path \in DOMAIN data.models}

\* C26: every model the aggregator emits into the dataset has sizeMB > 0,
\* whatever file sizes, parameter counts and names its size was estimated from.
C26_EmittedSizePositive ==
    /\ \A model \in ModelsOf(modelsJson) : model.sizeMB > 0
    /\ IsDefined(aggregation)
        => \A model \in ModelsOf(Val(aggregation).returned.data) : model.sizeMB > 0

----------------------------------------------------------------------------
(* Properties: the selector's results against its catalog *)

\* C27: filtering never loses or invents models: each tier of the result of
\* getTaskModelsGroupedByTier has (number of models shown) + hidden = the
\* number of catalog models of that tier, and totalShown + totalHidden is the
\* number of models getTaskModels returns for the pair, which is the count
\* getAvailableCategories reports for it (no entry when the count is 0).
C27_FilteringConservesModels ==
    call.op = "getTaskModelsGroupedByTier" =>
        LET category == call.args[1]
            subcategory == call.args[2]
            total == call.ret.totalShown + call.ret.totalHidden
            available == getAvailableCategories(modelsData)
        IN  /\ \A tier \in TierNames :
                  Len(call.ret[tier].models) + call.ret[tier].hidden =
                      Len(CatalogTier(modelsData, category, subcategory, tier))
            /\ total = Len(getTaskModels(modelsData, category, subcategory))
            /\ IF <<category, subcategory>> \in PairsOfAvailable(available)
               THEN available[category][subcategory] = total
               ELSE total = 0

\* both filters at work on a tier of two models: one is shown, one is hidden
C27_Witness ==
    /\ call.op = "getTaskModelsGroupedByTier"
    /\ call.args[3] # 0
    /\ IsDefined(call.args[4])
    /\ \E tier \in TierNames :
          /\ Len(CatalogTier(modelsData, call.args[1], call.args[2], tier)) = 2
          /\ Len(call.ret[tier].models) = 1
          /\ call.ret[tier].hidden = 1
    /\ call.ret.totalShown = 1
    /\ call.ret.totalHidden = 1

----------------------------------------------------------------------------
(* Properties: the page across failures and submissions *)

\* a classify request of the session has ended with an error
ClassifyFailed == \E i \in DOMAIN served : served[i].outcome.threw

\* the tiers' lists of a grouped result, in the order of TIERS
TierLists(groupedModels) ==
    Flatten([i \in TierIndexes |-> groupedModels[TIERS[i]].models])

\* C28: a classify request that fails does not abort the user-facing flow. The
\* step in which it fails leaves the page's error, its recommendations, its
\* loading flag and the detected category, subcategory and confidence as they
\* were; and a form submission after a failure is processed as usual: the
\* selector is called for the submitted pair and the page shows its models, or
\* the message that there are none.
C28_FailedClassifyDoesNotAbort ==
    [][/\ Len(served') = Len(served) + 1 /\ served'[Len(served')].outcome.threw =>
             UNCHANGED <<error, recommendations, isLoading, prefillVars>>
       /\ ClassifyFailed /\ submitted' # submitted =>
             LET detail == Val(submitted')
                 groupedModels == getTaskModelsGroupedByTier(modelsData, detail.category,
                                      detail.subcategory, 0, detail.deploymentTarget)
             IN  /\ ~call'.threw
                 /\ call'.ret = groupedModels
                 /\ recommendations' = TierLists(groupedModels)
                 /\ error' = IF TierLists(groupedModels) = <<>>
                             THEN Some(NoModelsMessage(detail)) ELSE Undefined
                 /\ isLoading' = FALSE
                 /\ UNCHANGED prefillVars]_vars

\* a label was detected, the next classify request failed and the label is
\* still there; the form was submitted and the page shows a model
C28_Witness ==
    /\ Len(served) = 2
    /\ ~served[1].outcome.threw
    /\ served[2].outcome.threw
    /\ <<prefillCategory, prefillSubcategory, prefillConfidence>>
           = Detected(Val(served[1].outcome.result))
    /\ IsDefined(submitted)
    /\ Len(recommendations) = 1
    /\ error = Undefined
    /\ isLoading = FALSE

\* C29: when the page is opened with the category and task parameters in its
\* URL, the model selection for that pair runs however the initialization of
\* the embedding classifier ends (ready, a reported failure, a thrown error):
\* the step that ends onMount calls the selector for the pair and the page
\* shows what it returned.
C29_UrlSelectionWhateverInitOutcome ==
    [][/\ mount = "initializing"
       /\ mount' # "initializing"
       /\ Truthy(url.category)
       /\ Truthy(url.task)
       => /\ call'.op = "getTaskModelsGroupedByTier"
          /\ call'.args[1] = Val(url.category)
          /\ call'.args[2] = Val(url.task)
          /\ submitted' = Some(Detail(Val(url.category), Val(url.task),
                                IF Truthy(url.deploy) THEN url.deploy ELSE Undefined))
          /\ recommendations' = TierLists(call'.ret)]_vars

============================================================================
